---------------------------- MODULE Spec2Model ----------------------------
(***************************************************************************)
(* A model of the YouTrack dashboard back end (src/youtrack_queries.py):   *)
(* the deployment link resolver (get_deployments_on_live and               *)
(* _collect_links_into), the two summary aggregations                      *)
(* (get_task_counts_by_type_and_state, get_task_counts_by_type) and the    *)
(* monthly aggregation (get_monthly_task_counts_by_type).                  *)
(*                                                                         *)
(* Python strings are sequences of one-character strings, so that strip,   *)
(* lower, upper and the key regular expression are computed character by   *)
(* character.  Python's None is the value NoneV.  An epoch-millisecond     *)
(* value v is the pair (days, ms) with v = days * 86400000 + ms and        *)
(* 0 <= ms < 86400000, because v itself exceeds the model checker's        *)
(* integers.                                                               *)
(***************************************************************************)
EXTENDS Integers, Sequences, FiniteSets, TLC

(***************************************************************************)
(* Strings                                                                 *)
(***************************************************************************)
NoneV == <<"<None>">>

UpperSeq == <<"A","B","C","D","E","F","G","H","I","J","K","L","M",
              "N","O","P","Q","R","S","T","U","V","W","X","Y","Z">>

LowerSeq == <<"a","b","c","d","e","f","g","h","i","j","k","l","m",
              "n","o","p","q","r","s","t","u","v","w","x","y","z">>

DigitSeq == <<"0","1","2","3","4","5","6","7","8","9">>

UpperChars == {UpperSeq[i] : i \in DOMAIN UpperSeq}

DigitChars == {DigitSeq[i] : i \in DOMAIN DigitSeq}

SpaceChars == {" "}

\* str.lower() and str.upper() on one character
LowerChar(c) ==
    IF c \in UpperChars
    THEN LowerSeq[CHOOSE i \in DOMAIN UpperSeq : UpperSeq[i] = c]
    ELSE c

UpperChar(c) ==
    IF \E i \in DOMAIN LowerSeq : LowerSeq[i] = c
    THEN UpperSeq[CHOOSE i \in DOMAIN LowerSeq : LowerSeq[i] = c]
    ELSE c

Lower(s) == [i \in 1..Len(s) |-> LowerChar(s[i])]

Upper(s) == [i \in 1..Len(s) |-> UpperChar(s[i])]

\* str.strip(): drop leading and trailing whitespace
Strip(s) ==
    LET keep == {i \in 1..Len(s) : s[i] \notin SpaceChars}
    IN  IF keep = {} THEN <<>>
        ELSE LET lo == CHOOSE i \in keep : \A j \in keep : i <= j
                 hi == CHOOSE i \in keep : \A j \in keep : j <= i
             IN  SubSeq(s, lo, hi)

\* Python truthiness of a string-or-None, and the idiom (x or d)
Truthy(x) == x # NoneV /\ x # <<>>

OrElse(x, d) == IF Truthy(x) THEN x ELSE d

Unspecified == <<"U","n","s","p","e","c","i","f","i","e","d">>

(***************************************************************************)
(* Dates: days since 1970-01-01 to the civil (UTC) calendar date           *)
(***************************************************************************)
\* the last day datetime can hold: 9999-12-31
MaxDateDays == 2932896

CivilFromDays(n) ==
    LET z   == n + 719468
        era == z \div 146097
        doe == z - era * 146097
        yoe == (doe - (doe \div 1460) + (doe \div 36524) - (doe \div 146096)) \div 365
        doy == doe - (365 * yoe + (yoe \div 4) - (yoe \div 100))
        mp  == (5 * doy + 2) \div 153
        d   == doy - ((153 * mp + 2) \div 5) + 1
        m   == IF mp < 10 THEN mp + 3 ELSE mp - 9
        y   == yoe + era * 400 + (IF m <= 2 THEN 1 ELSE 0)
    IN  <<y, m, d>>

\* isinstance(v, (int, float)) and v > 0
IsPositiveNumber(v) ==
    v.kind = "num" /\ (v.days > 0 \/ (v.days = 0 /\ v.ms > 0))

\* datetime.fromtimestamp(v / 1000.0, tz=timezone.utc) raises past year 9999
FromTimestampRaises(v) == v.days > MaxDateDays

\* datetime.fromtimestamp(v / 1000.0, tz=timezone.utc).date()
FromTimestampDate(v) == CivilFromDays(v.days)

\* created_iso = "": the empty date
NoDate == <<>>

(***************************************************************************)
(* Custom-field extractors                                                 *)
(***************************************************************************)
S_type == <<"t","y","p","e">>

S_issue_type == <<"i","s","s","u","e"," ","t","y","p","e">>

S_issuetype == <<"i","s","s","u","e","t","y","p","e">>

S_state == <<"s","t","a","t","e">>

\* (val.get("name") or val.get("localizedName") or "").strip() or None
ValueName(val) ==
    LET n == Strip(OrElse(val.name, OrElse(val.localizedName, <<>>)))
    IN  IF n = <<>> THEN NoneV ELSE n

\* the first custom field whose normalised name is in names decides
ExtractNamed(cfs, names) ==
    LET hits == {i \in 1..Len(cfs) :
                    Lower(Strip(OrElse(cfs[i].name, <<>>))) \in names}
    IN  IF hits = {} THEN NoneV
        ELSE LET i == CHOOSE k \in hits : \A j \in hits : k <= j
             IN  IF cfs[i].value.isdict THEN ValueName(cfs[i].value) ELSE NoneV

extract_type_from_issue(issue) ==
    ExtractNamed(issue.customFields, {S_type, S_issue_type, S_issuetype})

extract_state_from_issue(issue) ==
    ExtractNamed(issue.customFields, {S_state})

(***************************************************************************)
(* _KEY_RE = ^[A-Z][A-Z0-9_]*-\d+$ applied with match()                    *)
(***************************************************************************)
KeyBodyChars == UpperChars \cup DigitChars \cup {"_"}

is_valid_issue_key(s) ==
    /\ s # NoneV
    /\ Len(s) > 0
    /\ s[1] \in UpperChars
    /\ \E h \in 2..(Len(s) - 1) :
          /\ s[h] = "-"
          /\ \A i \in 2..(h - 1) : s[i] \in KeyBodyChars
          /\ \A i \in (h + 1)..Len(s) : s[i] \in DigitChars

(***************************************************************************)
(* Inputs of the link resolver: what the tracker may answer                *)
(***************************************************************************)
K_AT1 == <<"A","T","-","1">>

K_AT2 == <<"A","T","-","2">>

K_AT1_padded == <<" ","A","T","-","1"," ">>

K_internal == <<"3","-","7">>

K_lower == <<"a","t","-","1">>

P_at == <<"a","t">>

P_AT == <<"A","T">>

T_Bug == <<"B","u","g">>

T_Task == <<"T","a","s","k">>

St_Open == <<"O","p","e","n">>

St_Done == <<"D","o","n","e">>

Title_a == <<"a">>

Title_r == <<"r">>

DictValue(n) == [isdict |-> TRUE, name |-> n, localizedName |-> NoneV]

NotADict == [isdict |-> FALSE, name |-> NoneV, localizedName |-> NoneV]

CF(n, v) == [name |-> n, value |-> v]

CF_Bug_Open == << CF(<<"T","y","p","e">>, DictValue(T_Bug)),
                  CF(<<"S","t","a","t","e">>, DictValue(St_Open)) >>

CF_Task_Done == << CF(<<"I","s","s","u","e"," ","T","y","p","e">>, DictValue(T_Task)),
                   CF(<<"S","t","a","t","e">>, DictValue(St_Done)) >>

CF_Type_only == << CF(<<"T","y","p","e">>, DictValue(T_Bug)),
                   CF(<<"S","t","a","t","e">>, NotADict) >>

CF_empty == <<>>

Ts(k, d, m) == [kind |-> k, days |-> d, ms |-> m]

Ts_none == Ts("none", 0, 0)

Ts_text == Ts("str", 0, 0)

Ts_zero == Ts("num", 0, 0)

Ts_negative == Ts("num", -1, 0)

\* 2024-02-29T00:00:01Z and 2025-08-15T12:00:00Z
Ts_leap == Ts("num", 19782, 1000)

Ts_2025 == Ts("num", 20315, 43200000)

\* the first millisecond of the year 10000
Ts_too_big == Ts("num", MaxDateDays + 1, 0)

Timestamps == {Ts_none, Ts_text, Ts_zero, Ts_negative, Ts_leap, Ts_2025, Ts_too_big}

Issue(rid, iid, proj, cfs, summ, cr) ==
    [idReadable |-> rid, id |-> iid, project |-> proj,
     customFields |-> cfs, summary |-> summ, created |-> cr]

\* the issue objects a link entry may carry
LinkIssues ==
    { Issue(K_AT2, K_internal, P_at, CF_Bug_Open, Title_a, Ts_leap),
      Issue(K_AT1_padded, NoneV, NoneV, CF_Type_only, NoneV, Ts_zero),
      Issue(K_internal, K_internal, P_at, CF_Bug_Open, Title_a, Ts_negative),
      Issue(K_AT1, K_internal, NoneV, CF_Bug_Open, Title_a, Ts_too_big) }

\* the answers of the single-issue lookup; LookupFails is the exception
ResolvedIssues ==
    { Issue(K_AT1, K_internal, P_at, CF_Task_Done, Title_r, Ts_2025),
      Issue(K_lower, NoneV, NoneV, CF_empty, NoneV, Ts_too_big) }

LookupFails == Issue(NoneV, NoneV, NoneV, CF_empty, NoneV, Ts("failed", 0, 0))

LookupOutcomes == ResolvedIssues \cup {LookupFails}

LT_Subtask_padded == <<" ","S","u","b","t","a","s","k"," ">>

\* the linkType names a link may carry (NoneV: no linkType object or name)
LinkTypeNames == {LT_Subtask_padded, NoneV}

\* _DEPLOYMENT_LINK_TYPES
DEPLOYMENT_LINK_TYPES ==
    { <<"r","e","l","a","t","e","s">>, <<"s","u","b","t","a","s","k">> }

\* the link_types argument: None or a caller's set
LinkTypesNone == [none |-> TRUE, set |-> {}]

LinkTypeArgs ==
    { LinkTypesNone,
      [none |-> FALSE, set |-> {<<"D","u","p","l","i","c","a","t","e"," ">>}] }

ProjectArgs == {<<>>, P_AT}

\* the deployment issues the search may yield (id: the internal id)
DeploymentIssues ==
    { [idReadable |-> <<"A","T","-","8">>, id |-> <<"2","-","1">>],
      [idReadable |-> <<"A","T","-","9">>, id |-> NoneV] }

(***************************************************************************)
(* Bounds                                                                  *)
(***************************************************************************)
\* deployments yielded by one call
MaxDeps == 2

\* linked issue objects examined by one call, over all links
MaxEntries == 2

(***************************************************************************)
(* _collect_links_into, one linked issue                                   *)
(***************************************************************************)
\* line 444: the conversion at line 445 is attempted
CreatedConverts(ts) == IsPositiveNumber(ts)

\* line 445, outside any try
CreatedRaises(ts) == CreatedConverts(ts) /\ FromTimestampRaises(ts)

CreatedIso(ts) ==
    IF CreatedConverts(ts) /\ ~FromTimestampRaises(ts)
    THEN FromTimestampDate(ts)
    ELSE NoDate

\* lines 434-445: the raw fields of a linked issue
RawFields(li) ==
    [id       |-> Strip(OrElse(li.idReadable, <<>>)),
     internal |-> Strip(OrElse(li.id, <<>>)),
     project  |-> Upper(Strip(OrElse(li.project, <<>>))),
     type     |-> extract_type_from_issue(li),
     state    |-> extract_state_from_issue(li),
     title    |-> Strip(OrElse(li.summary, <<>>)),
     created  |-> CreatedIso(li.created)]

\* line 450
needs_resolve(f) ==
    \/ ~is_valid_issue_key(f.id)
    \/ ~Truthy(f.project)
    \/ ~Truthy(f.type)
    \/ ~Truthy(f.state)

\* line 453: prefer the internal id
issue_key(f) == OrElse(f.internal, f.id)

\* lines 463-471: the lookup answered; an exception of the conversion at
\* line 471 is caught at line 472 after the other fields were assigned
Backfill(f, r) ==
    [id       |-> OrElse(Strip(OrElse(r.idReadable, <<>>)), f.id),
     internal |-> f.internal,
     project  |-> OrElse(f.project, Upper(Strip(OrElse(r.project, <<>>)))),
     type     |-> OrElse(f.type, OrElse(extract_type_from_issue(r), Unspecified)),
     state    |-> OrElse(f.state, OrElse(extract_state_from_issue(r), Unspecified)),
     title    |-> OrElse(f.title, Strip(OrElse(r.summary, <<>>))),
     created  |-> IF f.created = NoDate THEN CreatedIso(r.created) ELSE f.created]

\* lines 454-474: the lookup failed (except: pass) or answered
Resolve(f, outcome) ==
    IF outcome = LookupFails THEN f ELSE Backfill(f, outcome)

\* lines 452-474
AfterResolve(f, outcome) ==
    IF needs_resolve(f) THEN Resolve(f, outcome) ELSE f

\* line 477 testing only that the key is not empty
KeepsEntry_NonEmpty(f) == Truthy(f.id)

\* line 477
KeepsEntry(f) == is_valid_issue_key(f.id)

\* line 481 with the membership test left out
IsDuplicate_Never(f, seen) == FALSE

\* line 481
IsDuplicate(f, seen) == f.id \in seen

\* lines 485-492
LinkedRecord(f) ==
    [id         |-> f.id,
     project    |-> f.project,
     type       |-> OrElse(f.type, Unspecified),
     state      |-> OrElse(f.state, Unspecified),
     title      |-> f.title,
     created_on |-> f.created]

\* line 425
LinkTypeRaw(name) == Strip(OrElse(name, <<>>))

\* line 429 with the filter left out
PassesFilter_NoFilter(al, raw) == TRUE

\* line 429
PassesFilter(al, raw) == al.none \/ Lower(raw) \in al.set

\* line 368
AllowedSet(link_types, disc) ==
    IF disc THEN [none |-> TRUE, set |-> {}]
    ELSE [none |-> FALSE,
          set  |-> {Lower(Strip(x)) :
                      x \in (IF link_types.none \/ link_types.set = {}
                             THEN DEPLOYMENT_LINK_TYPES
                             ELSE link_types.set)}]

\* line 388 without the test of inline_count
NeedsFallback_Always(count, dbid) == Truthy(dbid)

\* line 388 asking for the fallback after a single inline record as well
NeedsFallback_AtMostOne(count, dbid) == count <= 1 /\ Truthy(dbid)

\* line 388
NeedsFallback(count, dbid) == count = 0 /\ Truthy(dbid)

\* lines 432-493 for one linked issue and one behaviour of the lookup
EntryCase(li, outcome) ==
    [li      |-> li,
     raises  |-> CreatedRaises(li.created),
     before  |-> RawFields(li),
     lookup  |-> ~CreatedRaises(li.created) /\ needs_resolve(RawFields(li)),
     key     |-> issue_key(RawFields(li)),
     failed  |-> /\ ~CreatedRaises(li.created)
                 /\ needs_resolve(RawFields(li))
                 /\ outcome = LookupFails,
     final   |-> IF CreatedRaises(li.created) THEN RawFields(li)
                 ELSE AfterResolve(RawFields(li), outcome),
     keep    |-> /\ ~CreatedRaises(li.created)
                 /\ KeepsEntry(AfterResolve(RawFields(li), outcome))]

EntryCases == {EntryCase(li, outcome) : li \in LinkIssues, outcome \in LookupOutcomes}

(***************************************************************************)
(* State                                                                   *)
(***************************************************************************)
VARIABLES
    \* get_deployments_on_live and the _collect_links_into call it is in
    lpc,              \* start, inline, fallback, iter, done, raised
    allowed,          \* [none, set]: None in discovery mode
    discover,         \* the discover_link_types argument
    seen_link_types,
    deployments,      \* the result list: [deployment_id, linked]
    debug,            \* the debug object of the result
    dep,              \* the deployment issue of this iteration
    linked_out,
    seen_ids,
    appended,         \* of the running _collect_links_into call
    inline_count,
    in_link,          \* inside the issues of a link that passed the filter
    ltype_raw,        \* that link's trimmed type name
    \* history, read by the properties only
    link_types,       \* the link_types argument
    observed,         \* the linkType names of the links examined so far
    fetched,          \* deployments yielded by the search so far
    n_entries,        \* linked issues examined so far
    links_calls,      \* calls of the links endpoint for this deployment
    origin,           \* per record of linked_out: its link type and payload
    dep_log,          \* per record of deployments: dbid, origin, links_calls
    failures,         \* a fallback call or a lookup has failed in this call
    last              \* the linked issue examined by the latest step

linkVars == <<lpc, allowed, discover, seen_link_types, deployments, debug, dep,
              linked_out, seen_ids, appended, inline_count, in_link, ltype_raw,
              link_types, observed, fetched, n_entries, links_calls,
              origin, dep_log, failures, last>>

VARIABLES
    \* get_task_counts_by_type_and_state and get_task_counts_by_type
    apc,              \* start, loop, done
    fn,               \* which of the two functions was called
    per_project,
    overall,
    raw_matches,
    after_exclude,
    agg_debug,        \* the debug object of the result
    stream            \* history: the issues the search has yielded so far

aggVars == <<apc, fn, per_project, overall, raw_matches, after_exclude,
             agg_debug, stream>>

VARIABLES
    \* get_monthly_task_counts_by_type
    mpc,              \* start, month, done, raised
    m_project,        \* the project argument
    m_year,           \* the year argument
    today,            \* date.today(): [year, month]
    current_month,
    m,                \* the month of the running iteration
    per_type,
    out,
    m_result,         \* the mapping returned
    month_stream      \* history: the issues yielded so far, each with its month

monVars == <<mpc, m_project, m_year, today, current_month, m, per_type, out,
             m_result, month_stream>>

VARIABLES
    \* one call of _extract_type_from_issue or _extract_state_from_issue
    xpc,              \* start, done
    x_fn,             \* "type" or "state"
    x_issue,          \* the issue record passed
    x_out,            \* how the call ended: returned a value, or raised
    x_bucket          \* the bucket the caller files the issue under

extVars == <<xpc, x_fn, x_issue, x_out, x_bucket>>

VARIABLES
    \* one search run by a top-level function through a paged fetcher
    gpc,              \* start, request, yield, done, raised
    caller,           \* the top-level function that iterates the fetcher
    yt_query,         \* the query of the search
    page_size,
    dataset,          \* the number of records that match, in server order 1..dataset
    skip,
    batch,            \* the page received last
    pending,          \* the records of batch not yet yielded
    requests,         \* history: the requests sent, each with what came back
    yielded,          \* history: the records yielded so far
    call_outcome      \* how the top-level function ended

fetchVars == <<gpc, caller, yt_query, page_size, dataset, skip, batch, pending,
               requests, yielded, call_outcome>>

VARIABLES
    \* one call of get_period_range or get_field_period_filter
    rpc,              \* start, done
    r_fn,             \* which of the two functions was called
    r_key,            \* the period_key argument
    r_today,          \* the reference day: the today argument or date.today()
    r_field,          \* the field argument of get_field_period_filter
    r_out             \* how the call ended: the value returned or the error raised

periodVars == <<rpc, r_fn, r_key, r_today, r_field, r_out>>

VARIABLES
    \* a metadata function wrapped by ttl_cache
    kpc,              \* start, ready
    ttl_seconds,
    clock,            \* time.time()
    cache,            \* _cache: per key, the timestamp and the value stored
    computed,         \* history: per key, the last successful computation since
                      \* the last cache_clear: the time it was made at, its value
    cleared,          \* history: keys not called since the last cache_clear
    k_last            \* history: the latest call of the wrapper

cacheVars == <<kpc, ttl_seconds, clock, cache, computed, cleared, k_last>>

VARIABLES
    \* the query of an aggregation (lines 213-216 and 282-289)
    qpc,              \* start, done
    q_fn,             \* which function was called
    q_projects,       \* the list of project codes given
    q_key,            \* the period_key argument
    q_today,          \* date.today()
    q_out             \* the string built

queryVars == <<qpc, q_fn, q_projects, q_key, q_today, q_out>>

VARIABLES
    \* a paged fetch while somebody else edits the tracker
    wpc,              \* start, request, yield, done
    l_fetcher,        \* _iter_issues_minimal or _iter_issues_with_fields
    l_page_size,      \* the page_size argument
    live,             \* the records matching the query, in the server's order, now
    at_search,        \* the records matching the query when the fetch began
    l_skip,           \* the local skip
    l_batch,          \* the page last received
    l_pending,        \* records of the page not yet yielded
    l_yielded,        \* everything yielded so far, in order
    mutations         \* history: what the external actor did, in order

liveVars == <<wpc, l_fetcher, l_page_size, live, at_search, l_skip, l_batch,
              l_pending, l_yielded, mutations>>

vars == <<linkVars, aggVars, monVars, extVars, fetchVars, periodVars, cacheVars,
          queryVars, liveVars>>

\* a step of the link resolver leaves the other functions' state alone
LinksOnly ==
    UNCHANGED <<aggVars, monVars, extVars, fetchVars, periodVars, cacheVars, queryVars,
                liveVars>>

AggOnly ==
    UNCHANGED <<linkVars, monVars, extVars, fetchVars, periodVars, cacheVars, queryVars,
                liveVars>>

MonthlyOnly ==
    UNCHANGED <<linkVars, aggVars, extVars, fetchVars, periodVars, cacheVars, queryVars,
                liveVars>>

ExtractOnly ==
    UNCHANGED <<linkVars, aggVars, monVars, fetchVars, periodVars, cacheVars, queryVars,
                liveVars>>

FetchOnly ==
    UNCHANGED <<linkVars, aggVars, monVars, extVars, periodVars, cacheVars, queryVars,
                liveVars>>

PeriodOnly ==
    UNCHANGED <<linkVars, aggVars, monVars, extVars, fetchVars, cacheVars, queryVars,
                liveVars>>

CacheOnly ==
    UNCHANGED <<linkVars, aggVars, monVars, extVars, fetchVars, periodVars, queryVars,
                liveVars>>

QueryOnly ==
    UNCHANGED <<linkVars, aggVars, monVars, extVars, fetchVars, periodVars, cacheVars,
                liveVars>>

LiveOnly ==
    UNCHANGED <<linkVars, aggVars, monVars, extVars, fetchVars, periodVars, cacheVars,
                queryVars>>

NoLast == [kind |-> "none", case |-> EntryCase(LookupFails, LookupFails),
           payload |-> "", outcome |-> ""]

NoDebug == [returned |-> FALSE, count |-> 0, has_seen |-> FALSE, link_types_seen |-> {}]

NoDep == [idReadable |-> NoneV, id |-> NoneV]

InitLinks ==
    /\ lpc = "start"
    /\ allowed = [none |-> TRUE, set |-> {}]
    /\ discover = FALSE
    /\ seen_link_types = {}
    /\ deployments = <<>>
    /\ debug = NoDebug
    /\ dep = NoDep
    /\ linked_out = <<>>
    /\ seen_ids = {}
    /\ appended = 0
    /\ inline_count = 0
    /\ in_link = FALSE
    /\ ltype_raw = <<>>
    /\ link_types = LinkTypesNone
    /\ observed = {}
    /\ fetched = 0
    /\ n_entries = 0
    /\ links_calls = 0
    /\ origin = <<>>
    /\ dep_log = <<>>
    /\ failures = FALSE
    /\ last = NoLast

(***************************************************************************)
(* get_deployments_on_live.  The locals of an iteration (dep, linked_out,  *)
(* seen_ids, inline_count, appended, ltype_raw) are reset where the code   *)
(* leaves their scope or overwrites them before the next read.             *)
(***************************************************************************)
\* lines 348-349 and 368-370
Call(project, lts, disc) ==
    /\ lpc = "start"
    /\ IF ~Truthy(project)
       THEN /\ lpc' = "done"
            /\ debug' = [NoDebug EXCEPT !.returned = TRUE]
            /\ UNCHANGED <<allowed, discover, link_types>>
       ELSE /\ lpc' = "iter"
            /\ discover' = disc
            /\ link_types' = lts
            /\ allowed' = AllowedSet(lts, disc)
            /\ UNCHANGED debug
    /\ UNCHANGED <<observed, seen_link_types, deployments, dep, linked_out, seen_ids,
                   appended, inline_count, in_link, ltype_raw, fetched,
                   n_entries, links_calls, origin, dep_log, failures, last>>
    /\ LinksOnly

\* lines 372-385: the search yields a deployment; its inline links are next
YieldDeployment(d) ==
    /\ lpc = "iter"
    /\ fetched < MaxDeps
    /\ lpc' = "inline"
    /\ dep' = d
    /\ fetched' = fetched + 1
    /\ last' = NoLast
    /\ UNCHANGED <<allowed, discover, link_types, observed, seen_link_types, deployments, debug,
                   linked_out, seen_ids, appended, inline_count, in_link,
                   ltype_raw, n_entries, links_calls, origin, dep_log,
                   failures>>
    /\ LinksOnly

\* lines 403-408
WithDeployment(deps, d, linked) ==
    Append(deps, [deployment_id |-> OrElse(d.idReadable, <<>>), linked |-> linked])

\* lines 403-408, and the end of the iteration
AppendDeployment(count, calls) ==
    /\ deployments' = WithDeployment(deployments, dep, linked_out)
    /\ dep_log' = Append(dep_log, [dbid |-> OrElse(dep.id, <<>>), origin |-> origin,
                                   inline_count |-> count, links_calls |-> calls])
    /\ lpc' = "iter"
    /\ dep' = NoDep
    /\ linked_out' = <<>>
    /\ seen_ids' = {}
    /\ origin' = <<>>
    /\ appended' = 0
    /\ inline_count' = 0
    /\ links_calls' = 0
    /\ in_link' = FALSE
    /\ ltype_raw' = <<>>

\* lines 427-428
SeenWith(seen, name) == seen \cup {LinkTypeRaw(name)}

\* lines 424-430: the next link of the payload
BeginLink(name) ==
    /\ lpc \in {"inline", "fallback"}
    /\ ~in_link
    /\ observed' = observed \cup {name}
    /\ seen_link_types' = SeenWith(seen_link_types, name)
    /\ in_link' = PassesFilter(allowed, LinkTypeRaw(name))
    /\ ltype_raw' = IF PassesFilter(allowed, LinkTypeRaw(name))
                    THEN LinkTypeRaw(name) ELSE <<>>
    /\ last' = NoLast
    /\ UNCHANGED <<lpc, allowed, discover, link_types, deployments, debug, dep,
                   linked_out, seen_ids, appended, inline_count, fetched,
                   n_entries, links_calls, origin, dep_log, failures>>
    /\ LinksOnly

\* line 432: the link's issues are exhausted
EndLink ==
    /\ lpc \in {"inline", "fallback"}
    /\ in_link
    /\ in_link' = FALSE
    /\ ltype_raw' = <<>>
    /\ last' = NoLast
    /\ UNCHANGED <<lpc, allowed, discover, link_types, observed,
                   seen_link_types, deployments, debug, dep, linked_out, seen_ids, appended, inline_count,
                   fetched, n_entries, links_calls, origin, dep_log,
                   failures>>
    /\ LinksOnly

Examined(c, what) ==
    [kind |-> "entry", case |-> c, payload |-> lpc, outcome |-> what]

\* line 445 raised in the inline payload: nothing catches it
EntryRaisesInline(c) ==
    /\ lpc = "inline"
    /\ c.raises
    /\ lpc' = "raised"
    /\ last' = Examined(c, "raised")
    /\ UNCHANGED <<deployments, dep_log, dep, linked_out, seen_ids, appended,
                   inline_count, links_calls, in_link, ltype_raw, origin,
                   failures>>

\* line 445 raised in the fallback payload: caught at line 400, the
\* deployment is appended with the records collected so far
EntryRaisesFallback(c) ==
    /\ lpc = "fallback"
    /\ c.raises
    /\ AppendDeployment(inline_count, links_calls)
    /\ last' = Examined(c, "aborted")
    /\ UNCHANGED failures

\* lines 447-493
EntryCollected(c) ==
    /\ ~c.raises
    /\ failures' = (failures \/ c.failed)
    /\ IF ~c.keep
       THEN /\ last' = Examined(c, "invalid")
            /\ UNCHANGED <<linked_out, seen_ids, appended, origin>>
       ELSE IF IsDuplicate(c.final, seen_ids)
       THEN /\ last' = Examined(c, "duplicate")
            /\ UNCHANGED <<linked_out, seen_ids, appended, origin>>
       ELSE /\ last' = Examined(c, "appended")
            /\ seen_ids' = seen_ids \cup {c.final.id}
            /\ linked_out' = Append(linked_out, LinkedRecord(c.final))
            /\ origin' = Append(origin, [ltype |-> ltype_raw, payload |-> lpc])
            /\ appended' = appended + 1
    /\ UNCHANGED <<lpc, deployments, dep_log, dep, inline_count, links_calls,
                   in_link, ltype_raw>>

\* lines 432-493: the next linked issue of the link
ProcessEntry(c) ==
    /\ lpc \in {"inline", "fallback"}
    /\ in_link
    /\ n_entries < MaxEntries
    /\ n_entries' = n_entries + 1
    /\ \/ EntryRaisesInline(c)
       \/ EntryRaisesFallback(c)
       \/ EntryCollected(c)
    /\ UNCHANGED <<allowed, discover, link_types, observed, seen_link_types, debug, fetched>>
    /\ LinksOnly

\* lines 383-388 and 403-408: the inline payload is exhausted, no fallback
EndInlineNoFallback ==
    /\ lpc = "inline"
    /\ ~in_link
    /\ ~NeedsFallback(appended, OrElse(dep.id, <<>>))
    /\ AppendDeployment(appended, links_calls)
    /\ last' = NoLast
    /\ UNCHANGED <<allowed, discover, link_types, observed, seen_link_types, debug, fetched,
                   n_entries, failures>>
    /\ LinksOnly

\* lines 388-399: the links endpoint answers
EndInlineFallbackAnswers ==
    /\ lpc = "inline"
    /\ ~in_link
    /\ NeedsFallback(appended, OrElse(dep.id, <<>>))
    /\ inline_count' = appended
    /\ links_calls' = links_calls + 1
    /\ appended' = 0
    /\ lpc' = "fallback"
    /\ last' = NoLast
    /\ UNCHANGED <<allowed, discover, link_types, observed, seen_link_types, deployments, debug, dep,
                   linked_out, seen_ids, in_link, ltype_raw, fetched,
                   n_entries, origin, dep_log, failures>>
    /\ LinksOnly

\* lines 388-408: the links endpoint fails, caught at line 400
EndInlineFallbackFails ==
    /\ lpc = "inline"
    /\ ~in_link
    /\ NeedsFallback(appended, OrElse(dep.id, <<>>))
    /\ failures' = TRUE
    /\ AppendDeployment(appended, links_calls + 1)
    /\ last' = NoLast
    /\ UNCHANGED <<allowed, discover, link_types, observed, seen_link_types, debug, fetched,
                   n_entries>>
    /\ LinksOnly

\* lines 399-408: the fallback payload is exhausted
EndFallback ==
    /\ lpc = "fallback"
    /\ ~in_link
    /\ AppendDeployment(inline_count, links_calls)
    /\ last' = NoLast
    /\ UNCHANGED <<allowed, discover, link_types, observed, seen_link_types, debug, fetched,
                   n_entries, failures>>
    /\ LinksOnly

\* lines 410-413: the search is exhausted
Return ==
    /\ lpc = "iter"
    /\ lpc' = "done"
    /\ debug' = [returned |-> TRUE, count |-> Len(deployments),
                 has_seen |-> discover,
                 link_types_seen |-> IF discover THEN seen_link_types ELSE {}]
    /\ last' = NoLast
    /\ UNCHANGED <<allowed, discover, link_types, observed, seen_link_types, deployments, dep,
                   linked_out, seen_ids, appended, inline_count, in_link,
                   ltype_raw, fetched, n_entries, links_calls, origin,
                   dep_log, failures>>
    /\ LinksOnly

NextLinks ==
    \/ \E p \in ProjectArgs, lt \in LinkTypeArgs, disc \in BOOLEAN : Call(p, lt, disc)
    \/ \E d \in DeploymentIssues : YieldDeployment(d)
    \/ \E name \in LinkTypeNames : BeginLink(name)
    \/ \E c \in EntryCases : ProcessEntry(c)
    \/ EndLink
    \/ EndInlineNoFallback
    \/ EndInlineFallbackAnswers
    \/ EndInlineFallbackFails
    \/ EndFallback
    \/ Return

(***************************************************************************)
(* Configuration (src/config.py) as youtrack_queries.py normalises it      *)
(***************************************************************************)
CONFIG_ACTIVE_PROJECTS ==
    << <<"A","P","L","U","S">>, <<"A","T">>, <<"A","C">> >>

CONFIG_EXCLUDED_TYPES ==
    << <<"D","e","p","l","o","y","m","e","n","t">> >>

\* line 22
ACTIVE_PROJECTS ==
    {Upper(Strip(CONFIG_ACTIVE_PROJECTS[i])) :
        i \in {k \in DOMAIN CONFIG_ACTIVE_PROJECTS :
                  Strip(CONFIG_ACTIVE_PROJECTS[k]) # <<>>}}

\* line 23
EXCLUDED_TYPES ==
    {Lower(Strip(CONFIG_EXCLUDED_TYPES[i])) :
        i \in {k \in DOMAIN CONFIG_EXCLUDED_TYPES :
                  Strip(CONFIG_EXCLUDED_TYPES[k]) # <<>>}}

(***************************************************************************)
(* Dictionaries: functions whose domain is the set of keys                 *)
(***************************************************************************)
EmptyDict == <<>>

\* d.get(k, default)
Get(d, k, default) == IF k \in DOMAIN d THEN d[k] ELSE default

\* d[k] = v
Put(d, k, v) == [x \in (DOMAIN d) \cup {k} |-> IF x = k THEN v ELSE d[x]]

(***************************************************************************)
(* Inputs of the aggregations: the issues the search may yield             *)
(***************************************************************************)
T_Deployment == <<"D","e","p","l","o","y","m","e","n","t">>

T_DEPLOYMENT_padded == <<" ","D","E","P","L","O","Y","M","E","N","T">>

P_aplus == <<"a","p","l","u","s">>

P_zz_padded == <<" ","z","z">>

CF_Type_State(t, st) == << CF(<<"T","y","p","e">>, DictValue(t)),
                           CF(<<"S","t","a","t","e">>, DictValue(st)) >>

AggIssue(proj, cfs) == [project |-> proj, customFields |-> cfs]

AggIssues ==
    { AggIssue(P_aplus, CF_Bug_Open),
      AggIssue(P_aplus, CF_Type_State(T_Bug, St_Done)),
      AggIssue(P_AT, CF_Type_State(T_Deployment, St_Open)),
      AggIssue(P_AT, CF_Bug_Open),
      AggIssue(NoneV, CF_Type_State(T_DEPLOYMENT_padded, St_Done)),
      AggIssue(NoneV, CF_Bug_Open),
      AggIssue(P_zz_padded, CF_empty) }

AggFunctions == {"by_type_and_state", "by_type"}

\* issues yielded to one aggregation call
MaxStream == 3

(***************************************************************************)
(* get_task_counts_by_type_and_state and get_task_counts_by_type           *)
(***************************************************************************)
\* lines 227 and 300-302
TypeOf(issue) == OrElse(extract_type_from_issue(issue), Unspecified)

\* line 231
StateOf(issue) == OrElse(extract_state_from_issue(issue), Unspecified)

\* lines 232 and 309
ProjectOf(issue) == Upper(Strip(OrElse(issue.project, <<>>)))

\* lines 228 and 305 comparing the type as it is spelled
IsExcluded_CaseSensitive(itype) == itype \in EXCLUDED_TYPES

\* lines 228 and 305
IsExcluded(itype) == Lower(Strip(itype)) \in EXCLUDED_TYPES

\* lines 237-239
CountTypeState(pp, proj, itype, istate) ==
    LET byType  == Get(pp, proj, EmptyDict)
        byState == Get(byType, itype, EmptyDict)
    IN  Put(pp, proj, Put(byType, itype, Put(byState, istate, Get(byState, istate, 0) + 1)))

\* line 243 forgetting the count so far
CountOverallTypeState_NoCarry(ov, itype, istate) ==
    LET byState == Get(ov, itype, EmptyDict)
    IN  Put(ov, itype, Put(byState, istate, 1))

\* lines 242-243
CountOverallTypeState(ov, itype, istate) ==
    LET byState == Get(ov, itype, EmptyDict)
    IN  Put(ov, itype, Put(byState, istate, Get(byState, istate, 0) + 1))

\* lines 313-314
CountType(pp, proj, itype) ==
    LET byType == Get(pp, proj, EmptyDict)
    IN  Put(pp, proj, Put(byType, itype, Get(byType, itype, 0) + 1))

\* line 315
CountOverallType(ov, itype) == Put(ov, itype, Get(ov, itype, 0) + 1)

NoAggDebug == [returned |-> FALSE, raw |-> 0, after_exclude |-> 0]

InitAgg ==
    /\ apc = "start"
    /\ fn = ""
    /\ per_project = EmptyDict
    /\ overall = EmptyDict
    /\ raw_matches = 0
    /\ after_exclude = 0
    /\ agg_debug = NoAggDebug
    /\ stream = <<>>

\* lines 210-222 and 279-295
AggCall(f) ==
    /\ apc = "start"
    /\ fn' = f
    /\ IF ACTIVE_PROJECTS = {}
       THEN /\ apc' = "done"
            /\ agg_debug' = [returned |-> TRUE, raw |-> 0, after_exclude |-> 0]
            /\ UNCHANGED per_project
       ELSE /\ apc' = "loop"
            /\ per_project' = [p \in ACTIVE_PROJECTS |-> EmptyDict]
            /\ UNCHANGED agg_debug
    /\ UNCHANGED <<overall, raw_matches, after_exclude, stream>>
    /\ AggOnly

\* lines 224-245: one issue in get_task_counts_by_type_and_state
FoldTypeState(issue) ==
    /\ fn = "by_type_and_state"
    /\ raw_matches' = raw_matches + 1
    /\ IF IsExcluded(TypeOf(issue)) \/ ~Truthy(ProjectOf(issue))
       THEN UNCHANGED <<per_project, overall, after_exclude>>
       ELSE /\ per_project' = CountTypeState(per_project, ProjectOf(issue),
                                             TypeOf(issue), StateOf(issue))
            /\ overall' = CountOverallTypeState(overall, TypeOf(issue), StateOf(issue))
            /\ after_exclude' = after_exclude + 1

\* lines 297-315: one issue in get_task_counts_by_type
FoldType(issue) ==
    /\ fn = "by_type"
    /\ raw_matches' = raw_matches + 1
    /\ IF IsExcluded(TypeOf(issue))
       THEN UNCHANGED <<per_project, overall, after_exclude>>
       ELSE /\ after_exclude' = after_exclude + 1
            /\ IF ~Truthy(ProjectOf(issue))
               THEN UNCHANGED <<per_project, overall>>
               ELSE /\ per_project' = CountType(per_project, ProjectOf(issue),
                                                TypeOf(issue))
                    /\ overall' = CountOverallType(overall, TypeOf(issue))

\* the search yields an issue
AggYield(issue) ==
    /\ apc = "loop"
    /\ Len(stream) < MaxStream
    /\ stream' = Append(stream, issue)
    /\ \/ FoldTypeState(issue)
       \/ FoldType(issue)
    /\ UNCHANGED <<apc, fn, agg_debug>>
    /\ AggOnly

\* lines 247-251 and 317-325: the search is exhausted
AggReturn ==
    /\ apc = "loop"
    /\ apc' = "done"
    /\ agg_debug' = [returned |-> TRUE, raw |-> raw_matches,
                     after_exclude |-> after_exclude]
    /\ UNCHANGED <<fn, per_project, overall, raw_matches, after_exclude, stream>>
    /\ AggOnly

NextAgg ==
    \/ \E f \in AggFunctions : AggCall(f)
    \/ \E issue \in AggIssues : AggYield(issue)
    \/ AggReturn

(***************************************************************************)
(* get_monthly_task_counts_by_type                                         *)
(***************************************************************************)
\* str(n) of a natural number
RECURSIVE Decimal(_)
Decimal(n) == IF n < 10 THEN <<DigitSeq[n + 1]>>
              ELSE Decimal(n \div 10) \o <<DigitSeq[(n % 10) + 1]>>

\* f"{m:02d}"
TwoDigits(n) == IF n < 10 THEN <<"0">> \o Decimal(n) ELSE Decimal(n)

\* lines 96 and 110: f"{year}-{m:02d}"
MonthKey(year, month) == Decimal(year) \o <<"-">> \o TwoDigits(month)

\* line 95 treating every year as a past year
CurrentMonth_Always12(year, td) == 12

\* line 95; the two reads of date.today() are taken on the same day
CurrentMonth(year, td) == IF year = td.year THEN td.month ELSE 12

\* line 96
month_keys(year, cm) == [k \in 1..cm |-> MonthKey(year, k)]

\* lines 114-117
CountMonthType(pt, issue) ==
    IF IsExcluded(TypeOf(issue)) THEN pt
    ELSE Put(pt, TypeOf(issue), Get(pt, TypeOf(issue), 0) + 1)

\* line 122
MonthlyResult(year, cm, o) ==
    [key \in {month_keys(year, cm)[k] : k \in 1..cm} |-> Get(o, key, EmptyDict)]

(***************************************************************************)
(* Inputs of the monthly aggregation                                       *)
(***************************************************************************)
Todays == { [year |-> 2026, month |-> 2], [year |-> 2026, month |-> 3] }

YearArgs == {2026, 2025}

MonthlyProjectArgs == {<<>>, P_AT}

MonthIssues ==
    { AggIssue(P_AT, CF_Bug_Open),
      AggIssue(P_AT, CF_Type_State(T_DEPLOYMENT_padded, St_Done)),
      AggIssue(P_AT, CF_empty) }

\* issues yielded to one monthly call, over all its months
MaxMonthlyIssues == 2

NoToday == [year |-> 0, month |-> 0]

InitMonthly ==
    /\ mpc = "start"
    /\ m_project = <<>>
    /\ m_year = 0
    /\ today = NoToday
    /\ current_month = 0
    /\ m = 0
    /\ per_type = EmptyDict
    /\ out = EmptyDict
    /\ m_result = EmptyDict
    /\ month_stream = <<>>

\* lines 91-98 and the first pass of line 100
MonthlyCall(project, year, td) ==
    /\ mpc = "start"
    /\ m_project' = project
    /\ m_year' = year
    /\ today' = td
    /\ IF ~Truthy(project)
       THEN /\ mpc' = "done"
            /\ m_result' = EmptyDict
            /\ UNCHANGED <<current_month, m>>
       ELSE /\ mpc' = "month"
            /\ current_month' = CurrentMonth(year, td)
            /\ m' = 1
            /\ UNCHANGED m_result
    /\ UNCHANGED <<per_type, out, month_stream>>
    /\ MonthlyOnly

\* lines 113-117: the month's search yields an issue
MonthIssue(issue) ==
    /\ mpc = "month"
    /\ Len(month_stream) < MaxMonthlyIssues
    /\ month_stream' = Append(month_stream, [month |-> m, issue |-> issue])
    /\ per_type' = CountMonthType(per_type, issue)
    /\ UNCHANGED <<mpc, m_project, m_year, today, current_month, m, out, m_result>>
    /\ MonthlyOnly

\* lines 44 and 113: a request of the month's search fails and the
\* exception leaves the function
MonthFetchFails ==
    /\ mpc = "month"
    /\ mpc' = "raised"
    /\ UNCHANGED <<m_project, m_year, today, current_month, m, per_type, out,
                   m_result, month_stream>>
    /\ MonthlyOnly

\* lines 119-122 and 100-111: the month's search is exhausted
MonthEnd ==
    /\ mpc = "month"
    /\ out' = Put(out, MonthKey(m_year, m), per_type)
    /\ IF m = current_month
       THEN /\ mpc' = "done"
            /\ m_result' = MonthlyResult(m_year, current_month, out')
            /\ UNCHANGED <<m, per_type>>
       ELSE /\ m' = m + 1
            /\ per_type' = EmptyDict
            /\ UNCHANGED <<mpc, m_result>>
    /\ UNCHANGED <<m_project, m_year, today, current_month, month_stream>>
    /\ MonthlyOnly

NextMonthly ==
    \/ \E project \in MonthlyProjectArgs, year \in YearArgs, td \in Todays :
          MonthlyCall(project, year, td)
    \/ \E issue \in MonthIssues : MonthIssue(issue)
    \/ MonthFetchFails
    \/ MonthEnd

(***************************************************************************)
(* The custom-field extractors called on any issue record                  *)
(***************************************************************************)
\* the record has no "customFields" key
MissingKey == [kind |-> "missing", items |-> <<>>]

\* the record has "customFields": null
NullList == [kind |-> "null", items |-> <<>>]

\* the record has a list under "customFields"
ListOf(items) == [kind |-> "list", items |-> items]

\* line 168 and 179: issue.get("customFields", [])
GetCustomFields(issue) ==
    IF issue.customFields = MissingKey THEN ListOf(<<>>) ELSE issue.customFields

\* line 168 and 179: `for cf in None` raises TypeError
IterationRaises(cfs) == cfs = NullList

Returned(v) == [kind |-> "returned", value |-> v]

Raised(what) == [kind |-> "raised", value |-> what]

\* lines 163-176 and 178-185, with the ways the call can end
ExtractOutcome(issue, names) ==
    IF IterationRaises(GetCustomFields(issue)) THEN Raised("TypeError")
    ELSE Returned(ExtractNamed(GetCustomFields(issue).items, names))

\* lines 114, 227, 231, 300-302, 488 and 489: `... or "Unspecified"`
BucketOf(outcome) ==
    IF outcome.kind = "returned" THEN OrElse(outcome.value, Unspecified)
    ELSE NoneV

(***************************************************************************)
(* Inputs of the extractors                                                *)
(***************************************************************************)
N_Type == <<"T","y","p","e">>

N_ISSUE_TYPE_padded == <<" ","I","S","S","U","E"," ","T","Y","P","E"," ">>

N_IssueType == <<"I","s","s","u","e","T","y","p","e">>

N_State == <<"S","t","a","t","e">>

N_Priority == <<"P","r","i","o","r","i","t","y">>

FieldNames == {N_Type, N_ISSUE_TYPE_padded, N_IssueType, N_State, N_Priority, NoneV}

V_localized == [isdict |-> TRUE, name |-> NoneV, localizedName |-> <<"F","e","h","l","e","r">>]

V_unnamed == [isdict |-> TRUE, name |-> NoneV, localizedName |-> NoneV]

V_blank == [isdict |-> TRUE, name |-> <<" "," ">>, localizedName |-> NoneV]

FieldValues == {DictValue(T_Bug), DictValue(St_Open), V_localized, V_unnamed,
                V_blank, NotADict}

CustomFieldLists ==
    {MissingKey, NullList, ListOf(<<>>)}
      \cup {ListOf(<<CF(n, v)>>) : n \in FieldNames, v \in FieldValues}
      \cup {ListOf(<<CF(N_Priority, v), CF(n, DictValue(T_Task))>>) :
               n \in FieldNames, v \in FieldValues}

ExtractIssues == {[customFields |-> cfs] : cfs \in CustomFieldLists}

NoOutcome == [kind |-> "none", value |-> NoneV]

InitExtract ==
    /\ xpc = "start"
    /\ x_fn = ""
    /\ x_issue = [customFields |-> MissingKey]
    /\ x_out = NoOutcome
    /\ x_bucket = NoneV

\* lines 163-176 and the caller's default
ExtractType(issue) ==
    /\ xpc = "start"
    /\ xpc' = "done"
    /\ x_fn' = "type"
    /\ x_issue' = issue
    /\ x_out' = ExtractOutcome(issue, {S_type, S_issue_type, S_issuetype})
    /\ x_bucket' = BucketOf(x_out')
    /\ ExtractOnly

\* lines 178-185 and the caller's default
ExtractState(issue) ==
    /\ xpc = "start"
    /\ xpc' = "done"
    /\ x_fn' = "state"
    /\ x_issue' = issue
    /\ x_out' = ExtractOutcome(issue, {S_state})
    /\ x_bucket' = BucketOf(x_out')
    /\ ExtractOnly

NextExtract ==
    \/ \E issue \in ExtractIssues : ExtractType(issue)
    \/ \E issue \in ExtractIssues : ExtractState(issue)

(***************************************************************************)
(* The paged fetchers _iter_issues_minimal and _iter_issues_with_fields,   *)
(* iterated by a top-level function                                        *)
(***************************************************************************)
\* the functions that run a search, each with the fetcher it iterates
\* (lines 113, 224, 297 and 372)
Callers ==
    { [fn |-> "get_monthly_task_counts_by_type", fetcher |-> "_iter_issues_minimal"],
      [fn |-> "get_task_counts_by_type_and_state", fetcher |-> "_iter_issues_minimal"],
      [fn |-> "get_task_counts_by_type", fetcher |-> "_iter_issues_minimal"],
      [fn |-> "get_deployments_on_live", fetcher |-> "_iter_issues_with_fields"] }

NoCaller == [fn |-> "", fetcher |-> ""]

\* lines 108, 216, 289 and 355: the query the function builds
QueryOf(c) == <<"q", ":", c.fn>>

\* records that match a query
MaxDataset == 4

\* the page_size argument
MaxPageSize == 3

\* lines 54-59, and lines 358-365 passed to line 497
FieldsOf(c) ==
    IF c.fetcher = "_iter_issues_minimal"
    THEN "idReadable,project(shortName),created,customFields(name,value(name,localizedName))"
    ELSE "idReadable,id,summary,dueDate,customFields(...),links(...)"

\* lines 62-67 and 500
Params(q, f, ps, sk) == [query |-> q, fields |-> f, top |-> ps, skip |-> sk]

\* GET /api/issues with $top and $skip: the records at offsets skip+1 ..
\* skip+top of the server's order
ServerPage(n, top, sk) ==
    [i \in 1..(IF sk >= n THEN 0 ELSE IF n - sk < top THEN n - sk ELSE top) |-> sk + i]

\* line 73 stopping on a full page as well
IsLastPage_Full(b, ps) == Len(b) <= ps

\* lines 73 and 506
IsLastPage(b, ps) == Len(b) < ps

\* line 75 stepping one record too far
NextSkip_OffByOne(sk, ps) == sk + ps + 1

\* lines 75 and 508
NextSkip(sk, ps) == sk + ps

\* the ways a request can fail in _get: the transport (line 43) or
\* raise_for_status (line 44)
Failures ==
    { [type |-> "ConnectionError", status |-> NoneV],
      [type |-> "Timeout", status |-> NoneV],
      [type |-> "HTTPError", status |-> <<"5","0","0">>] }

\* the exception requests raises: it holds the request and, when there was a
\* response, its status
RaisedBy(failure, params) ==
    [type |-> failure.type, query |-> params.query, status |-> failure.status]

NoError == [type |-> "", query |-> <<>>, status |-> NoneV]

\* a function that ran its search to the end returns its result
Returns == [kind |-> "returned", error |-> NoError]

\* lines 113, 224, 297 and 372 inside a try that swallows the exception
OnSearchFailure_Swallowed(err) == Returns

\* lines 113, 224, 297 and 372: the for loop over the fetcher is in no try,
\* the exception leaves the function
OnSearchFailure(err) == [kind |-> "raised", error |-> err]

Running == [kind |-> "running", error |-> NoError]

InitFetch ==
    /\ gpc = "start"
    /\ caller = NoCaller
    /\ yt_query = <<>>
    /\ page_size = 0
    /\ dataset = 0
    /\ skip = 0
    /\ batch = <<>>
    /\ pending = <<>>
    /\ requests = <<>>
    /\ yielded = <<>>
    /\ call_outcome = Running

\* lines 60 and 498, entered from the caller's for loop
Search(c, ps, n) ==
    /\ gpc = "start"
    /\ gpc' = "request"
    /\ caller' = c
    /\ yt_query' = QueryOf(c)
    /\ page_size' = ps
    /\ dataset' = n
    /\ skip' = 0
    /\ UNCHANGED <<batch, pending, requests, yielded, call_outcome>>
    /\ FetchOnly

\* lines 73-75 after the last record of the batch, or line 70
AfterBatch(b) ==
    IF b = <<>> \/ IsLastPage(b, page_size)
    THEN /\ gpc' = "done"
         /\ call_outcome' = Returns
         /\ UNCHANGED skip
    ELSE /\ gpc' = "request"
         /\ skip' = NextSkip(skip, page_size)
         /\ UNCHANGED call_outcome

\* lines 62-70: a page is requested and the server answers
PageAnswers ==
    /\ gpc = "request"
    /\ LET params == Params(yt_query, FieldsOf(caller), page_size, skip)
           b == ServerPage(dataset, params.top, params.skip)
       IN  /\ requests' = Append(requests, [params |-> params, got |-> Len(b),
                                            failed |-> FALSE])
           /\ batch' = b
           /\ pending' = b
           /\ IF b = <<>>
              THEN AfterBatch(b)
              ELSE /\ gpc' = "yield"
                   /\ UNCHANGED <<skip, call_outcome>>
    /\ UNCHANGED <<caller, yt_query, page_size, dataset, yielded>>
    /\ FetchOnly

\* lines 71-75: the next record of the batch goes to the caller
YieldItem ==
    /\ gpc = "yield"
    /\ yielded' = Append(yielded, Head(pending))
    /\ pending' = Tail(pending)
    /\ IF Tail(pending) = <<>>
       THEN AfterBatch(batch)
       ELSE UNCHANGED <<gpc, skip, call_outcome>>
    /\ UNCHANGED <<caller, yt_query, page_size, dataset, batch, requests>>
    /\ FetchOnly

\* lines 43-44 and 68: the request fails and the exception passes through the
\* fetcher into the function that iterates it
PageFails(failure) ==
    /\ gpc = "request"
    /\ gpc' = "raised"
    /\ LET params == Params(yt_query, FieldsOf(caller), page_size, skip)
       IN  /\ requests' = Append(requests, [params |-> params, got |-> 0,
                                            failed |-> TRUE])
           /\ call_outcome' = OnSearchFailure(RaisedBy(failure, params))
    /\ UNCHANGED <<caller, yt_query, page_size, dataset, skip, batch, pending,
                   yielded>>
    /\ FetchOnly

NextFetch ==
    \/ \E c \in Callers, ps \in 1..MaxPageSize, n \in 0..MaxDataset : Search(c, ps, n)
    \/ PageAnswers
    \/ YieldItem
    \/ \E failure \in Failures : PageFails(failure)

(***************************************************************************)
(* period_utils: dates                                                     *)
(***************************************************************************)
Date(y, mo, d) == [year |-> y, month |-> mo, day |-> d]

\* date.toordinal, counted from 1970-01-01
DaysFromCivil(dt) ==
    LET y   == IF dt.month <= 2 THEN dt.year - 1 ELSE dt.year
        era == y \div 400
        yoe == y - era * 400
        mp  == IF dt.month > 2 THEN dt.month - 3 ELSE dt.month + 9
        doy == ((153 * mp + 2) \div 5) + dt.day - 1
        doe == yoe * 365 + (yoe \div 4) - (yoe \div 100) + doy
    IN  era * 146097 + doe - 719468

\* date - timedelta(days=n)
MinusDays(dt, n) ==
    LET c == CivilFromDays(DaysFromCivil(dt) - n)
    IN  Date(c[1], c[2], c[3])

\* date.isoformat(): YYYY-MM-DD
FourDigits(n) ==
    IF n < 10 THEN <<"0","0","0">> \o Decimal(n)
    ELSE IF n < 100 THEN <<"0","0">> \o Decimal(n)
    ELSE IF n < 1000 THEN <<"0">> \o Decimal(n)
    ELSE Decimal(n)

\* isoformat without the zero padding
IsoFormat_Unpadded(dt) ==
    Decimal(dt.year) \o <<"-">> \o Decimal(dt.month) \o <<"-">> \o Decimal(dt.day)

IsoFormat(dt) ==
    FourDigits(dt.year) \o <<"-">> \o TwoDigits(dt.month) \o <<"-">> \o TwoDigits(dt.day)

(***************************************************************************)
(* period_utils: the resolver                                              *)
(***************************************************************************)
\* lines 14-15
first_day_of_month(d) == Date(d.year, d.month, 1)

\* lines 17-21 without the step back of line 22
last_day_of_month_NoStepBack(d) ==
    IF d.month = 12 THEN Date(d.year + 1, 1, 1) ELSE Date(d.year, d.month + 1, 1)

\* lines 17-22
last_day_of_month(d) ==
    LET nxt == IF d.month = 12 THEN Date(d.year + 1, 1, 1)
               ELSE Date(d.year, d.month + 1, 1)
    IN  MinusDays(nxt, 1)

\* line 41 stepping back thirty days from the reference day
PreviousMonthAnchor_ThirtyDays(d) == MinusDays(d, 30)

\* lines 41 and 42: _first_day_of_month(d) - timedelta(days=1)
PreviousMonthAnchor(d) == MinusDays(first_day_of_month(d), 1)

\* lines 47-51 going six months back
Last6MonthsStart_SixBack(d) ==
    Date(d.year - (IF d.month - 6 <= 0 THEN 1 ELSE 0), ((d.month - 6 - 1) % 12) + 1, 1)

\* lines 47-51
Last6MonthsStart(d) ==
    Date(d.year - (IF d.month - 5 <= 0 THEN 1 ELSE 0), ((d.month - 5 - 1) % 12) + 1, 1)

\* lines 35-60: the keys of resolvers
ResolverKeys == {"current_month", "previous_month", "last_6_months", "last_1_year"}

\* lines 36-59
resolvers(key, d) ==
    CASE key = "current_month" ->
            <<first_day_of_month(d), last_day_of_month(d)>>
      [] key = "previous_month" ->
            <<first_day_of_month(PreviousMonthAnchor(d)),
              last_day_of_month(PreviousMonthAnchor(d))>>
      [] key = "last_6_months" ->
            <<first_day_of_month(Last6MonthsStart(d)), last_day_of_month(d)>>
      [] key = "last_1_year" ->
            <<Date(d.year - 1, d.month, 1), last_day_of_month(d)>>

\* src/config.py lines 10-15 without its last key
PERIOD_KEYS_Stale == <<"current_month", "previous_month", "last_6_months">>

\* src/config.py lines 10-15
PERIOD_KEYS == <<"current_month", "previous_month", "last_6_months", "last_1_year">>

NoRange == <<>>

\* lines 62-67
get_period_range(period_key, td) ==
    IF period_key \notin ResolverKeys
    THEN [kind |-> "raised", range |-> NoRange, fragment |-> <<>>,
          error |-> [type |-> "ValueError", key |-> period_key,
                     expected |-> PERIOD_KEYS]]
    ELSE [kind |-> "returned", range |-> resolvers(period_key, td), fragment |-> <<>>,
          error |-> [type |-> "", key |-> "", expected |-> <<>>]]

\* line 80
Fragment(field, start, end) ==
    field \o <<":", " ", "{">> \o IsoFormat(start) \o <<"}", " ", ".", ".", " ", "{">>
          \o IsoFormat(end) \o <<"}">>

\* lines 79-80
get_field_period_filter(field, period_key, td) ==
    LET r == get_period_range(period_key, td)
    IN  IF r.kind = "raised" THEN r
        ELSE [r EXCEPT !.fragment = Fragment(field, r.range[1], r.range[2])]

(***************************************************************************)
(* Inputs of the period resolver                                           *)
(***************************************************************************)
PeriodKeyArgs == ResolverKeys \cup {"last_year", "Current_Month", ""}

ReferenceYears == {1900, 2000, 2023, 2024, 2025}

ReferenceDays ==
    {Date(y, mo, d) : y \in ReferenceYears, mo \in 1..12, d \in {1, 15, 28}}
      \cup {Date(2024, 2, 29), Date(2000, 2, 29), Date(2025, 1, 31),
            Date(2025, 3, 31), Date(2025, 5, 31), Date(2023, 12, 31)}

\* the clock of the calls that take no today argument
ClockDays == {Date(2024, 2, 29), Date(2025, 1, 10), Date(2025, 8, 15), Date(2025, 12, 31)}

\* line 89 and src/youtrack_queries.py line 352
F_created == <<"c","r","e","a","t","e","d">>

F_due_date == <<"d","u","e"," ","d","a","t","e">>

FieldArgs == {F_created, F_due_date}

NoDay == Date(0, 0, 0)

NoPeriodOutcome ==
    [kind |-> "none", range |-> NoRange, fragment |-> <<>>,
     error |-> [type |-> "", key |-> "", expected |-> <<>>]]

InitPeriod ==
    /\ rpc = "start"
    /\ r_fn = ""
    /\ r_key = ""
    /\ r_today = NoDay
    /\ r_field = <<>>
    /\ r_out = NoPeriodOutcome

\* lines 27-67
GetPeriodRange(period_key, td) ==
    /\ rpc = "start"
    /\ rpc' = "done"
    /\ r_fn' = "get_period_range"
    /\ r_key' = period_key
    /\ r_today' = td
    /\ r_out' = get_period_range(period_key, td)
    /\ UNCHANGED r_field
    /\ PeriodOnly

\* lines 72-80; the reference day is date.today() (lines 32-33)
GetFieldPeriodFilter(field, period_key, td) ==
    /\ rpc = "start"
    /\ rpc' = "done"
    /\ r_fn' = "get_field_period_filter"
    /\ r_key' = period_key
    /\ r_today' = td
    /\ r_field' = field
    /\ r_out' = get_field_period_filter(field, period_key, td)
    /\ PeriodOnly

NextPeriod ==
    \/ \E k \in PeriodKeyArgs, td \in ReferenceDays : GetPeriodRange(k, td)
    \/ \E f \in FieldArgs, k \in PeriodKeyArgs, td \in ClockDays :
          GetFieldPeriodFilter(f, k, td)

(***************************************************************************)
(* youtrack_metadata: ttl_cache                                            *)
(***************************************************************************)
\* the argument tuples the wrapped function is called with (line 31)
CacheKeys == {"APLUS", "AT"}

\* what the wrapped function returns when it is invoked
FreshValues == {"v1", "v2"}

\* seconds the clock can reach
MaxTime == 4

\* the ttl_seconds argument
MaxTtl == 2

\* seconds a computation of the wrapped function can take
Durations == {0, 1}

NoEntry == [present |-> FALSE, ts |-> 0, value |-> ""]

Entry(ts, value) == [present |-> TRUE, ts |-> ts, value |-> value]

\* line 35 keeping the value through the second it expires at
IsFresh_Inclusive(now, ts, ttl) == now - ts <= ttl

\* line 35
IsFresh(now, ts, ttl) == now - ts < ttl

\* lines 33-36: the stored value is returned
CacheHit(c, key, now, ttl) ==
    c[key].present /\ IsFresh(now, c[key].ts, ttl)

NoCall == [kind |-> "none", key |-> "", at |-> 0, before |-> NoEntry,
           after_clear |-> FALSE, invoked |-> 0, raised |-> FALSE, value |-> ""]

InitCache ==
    /\ kpc = "start"
    /\ ttl_seconds = 0
    /\ clock = 0
    /\ cache = [k \in CacheKeys |-> NoEntry]
    /\ computed = [k \in CacheKeys |-> NoEntry]
    /\ cleared = {}
    /\ k_last = NoCall

\* lines 25-27 and 43: the function is decorated
Decorate(ttl) ==
    /\ kpc = "start"
    /\ kpc' = "ready"
    /\ ttl_seconds' = ttl
    /\ UNCHANGED <<clock, cache, computed, cleared, k_last>>
    /\ CacheOnly

\* time passes between calls
Tick ==
    /\ kpc = "ready"
    /\ clock < MaxTime
    /\ clock' = clock + 1
    /\ UNCHANGED <<kpc, ttl_seconds, cache, computed, cleared, k_last>>
    /\ CacheOnly

CallRecord(key, invoked, raised, value) ==
    [kind |-> "call", key |-> key, at |-> clock, before |-> computed[key],
     after_clear |-> key \in cleared, invoked |-> invoked, raised |-> raised,
     value |-> value]

\* lines 30-36: a call answered from the cache
WrapperHit(key) ==
    /\ kpc = "ready"
    /\ CacheHit(cache, key, clock, ttl_seconds)
    /\ k_last' = CallRecord(key, 0, FALSE, cache[key].value)
    /\ cleared' = cleared \ {key}
    /\ UNCHANGED <<kpc, ttl_seconds, clock, cache, computed>>
    /\ CacheOnly

\* lines 30-39: a call that invokes the wrapped function, which returns
\* value after d seconds
WrapperComputes(key, value, d) ==
    /\ kpc = "ready"
    /\ ~CacheHit(cache, key, clock, ttl_seconds)
    /\ clock + d <= MaxTime
    /\ clock' = clock + d
    /\ cache' = [cache EXCEPT ![key] = Entry(clock, value)]
    /\ computed' = [computed EXCEPT ![key] = Entry(clock, value)]
    /\ k_last' = CallRecord(key, 1, FALSE, value)
    /\ cleared' = cleared \ {key}
    /\ UNCHANGED <<kpc, ttl_seconds>>
    /\ CacheOnly

\* lines 30-37: a call that invokes the wrapped function, which raises after
\* d seconds; nothing is stored
WrapperRaises(key, d) ==
    /\ kpc = "ready"
    /\ ~CacheHit(cache, key, clock, ttl_seconds)
    /\ clock + d <= MaxTime
    /\ clock' = clock + d
    /\ k_last' = CallRecord(key, 1, TRUE, "")
    /\ cleared' = cleared \ {key}
    /\ UNCHANGED <<kpc, ttl_seconds, cache, computed>>
    /\ CacheOnly

\* line 42: wrapper.cache_clear()
CacheClear ==
    /\ kpc = "ready"
    /\ cache' = [k \in CacheKeys |-> NoEntry]
    /\ computed' = [k \in CacheKeys |-> NoEntry]
    /\ cleared' = CacheKeys
    /\ k_last' = [NoCall EXCEPT !.kind = "clear", !.at = clock]
    /\ UNCHANGED <<kpc, ttl_seconds, clock>>
    /\ CacheOnly

NextCache ==
    \/ \E ttl \in 1..MaxTtl : Decorate(ttl)
    \/ Tick
    \/ \E key \in CacheKeys : WrapperHit(key)
    \/ \E key \in CacheKeys, value \in FreshValues, d \in Durations :
          WrapperComputes(key, value, d)
    \/ \E key \in CacheKeys, d \in Durations : WrapperRaises(key, d)
    \/ CacheClear

(***************************************************************************)
(* The query of the aggregations                                           *)
(***************************************************************************)
\* line 22: the configured list, trimmed, upper-cased, blanks dropped
ActiveProjectsOf(config) ==
    LET NotBlank(p) == Strip(p) # <<>>
        kept == SelectSeq(config, NotBlank)
    IN  [i \in DOMAIN kept |-> Upper(Strip(kept[i]))]

\* line 259 emitting a predicate for every code
KeepsCode_All(p) == TRUE

\* line 259: `if p`
KeepsCode(p) == p # <<>>

\* line 259: f"project:{{{p}}}"
ProjectPredicate(p) == <<"p","r","o","j","e","c","t",":","{">> \o p \o <<"}">>

\* " ".join(parts)
RECURSIVE JoinWithSpace(_)
JoinWithSpace(parts) ==
    IF parts = <<>> THEN <<>>
    ELSE IF Len(parts) = 1 THEN parts[1]
    ELSE parts[1] \o <<" ">> \o JoinWithSpace(Tail(parts))

\* lines 254-260
build_projects_or_clause(projects) ==
    LET kept == SelectSeq(projects, KeepsCode)
        parts == [i \in DOMAIN kept |-> ProjectPredicate(kept[i])]
    IN  JoinWithSpace(parts)

\* lines 215 and 286
NoSubtasksClause == <<"h","a","s",":"," ","-","{","s","u","b","t","a","s","k"," ","o","f","}">>

\* lines 210-216 and 279-289
AggregationQuery(config, period_key, td) ==
    IF ActiveProjectsOf(config) = <<>>
    THEN [kind |-> "no projects", text |-> <<>>]
    ELSE [kind |-> "query",
          text |-> Strip(build_projects_or_clause(ActiveProjectsOf(config))
                           \o <<" ">>
                           \o get_field_period_filter(F_created, period_key, td).fragment
                           \o <<" ">> \o NoSubtasksClause)]

(***************************************************************************)
(* Inputs of the query builder                                             *)
(***************************************************************************)
P_APLUS == <<"A","P","L","U","S">>

P_at_padded == <<" ","a","t"," ">>

\* lists of project codes as written in config.ACTIVE_PROJECTS
ConfigLists ==
    {<<a>> : a \in {P_APLUS, P_at_padded, <<>>}}
      \cup {<<a, b>> : a \in {P_APLUS, P_at_padded, <<>>}, b \in {P_APLUS, P_at_padded, <<>>}}
      \cup {CONFIG_ACTIVE_PROJECTS}

\* lists of project codes passed to _build_projects_or_clause
CodeLists ==
    {<<a>> : a \in {P_APLUS, P_AT, <<>>}}
      \cup {<<a, b>> : a \in {P_APLUS, P_AT, <<>>}, b \in {P_APLUS, P_AT, <<>>}}
      \cup {<< P_APLUS, <<>>, P_AT >>}

InitQuery ==
    /\ qpc = "start"
    /\ q_fn = ""
    /\ q_projects = <<>>
    /\ q_key = ""
    /\ q_today = NoDay
    /\ q_out = [kind |-> "none", text |-> <<>>]

\* lines 254-260
BuildClause(projects) ==
    /\ qpc = "start"
    /\ qpc' = "done"
    /\ q_fn' = "_build_projects_or_clause"
    /\ q_projects' = projects
    /\ q_out' = [kind |-> "clause", text |-> build_projects_or_clause(projects)]
    /\ UNCHANGED <<q_key, q_today>>
    /\ QueryOnly

\* lines 22 and 210-216 (279-289 in get_task_counts_by_type)
BuildQuery(f, config, period_key, td) ==
    /\ qpc = "start"
    /\ qpc' = "done"
    /\ q_fn' = f
    /\ q_projects' = config
    /\ q_key' = period_key
    /\ q_today' = td
    /\ q_out' = AggregationQuery(config, period_key, td)
    /\ QueryOnly

NextQuery ==
    \/ \E projects \in CodeLists : BuildClause(projects)
    \/ \E f \in AggFunctions, config \in ConfigLists, k \in ResolverKeys,
          td \in ClockDays : BuildQuery(f, config, k, td)

(***************************************************************************)
(* A paged fetch over a dataset that changes between the requests          *)
(***************************************************************************)
Fetchers == {"_iter_issues_minimal", "_iter_issues_with_fields"}

\* records matching the query when the fetch begins
MaxLive == 3

\* the page_size argument
MaxLivePage == 2

\* edits of the external actor during one fetch
MaxMutations == 2

\* a record created during the fetch
NewRecord(k) == 100 + k

\* every request were answered from the dataset as it was at the first one
Served_Snapshot(current, first) == first

\* lines 62-68 and 500-502: every page is a request of its own, the server
\* answers it from the dataset as it is then
Served(current, first) == current

\* GET /api/issues with $top and $skip over the records
LivePage(records, top, sk) ==
    [i \in DOMAIN ServerPage(Len(records), top, sk) |->
        records[ServerPage(Len(records), top, sk)[i]]]

InsertAt(records, pos, r) ==
    SubSeq(records, 1, pos - 1) \o <<r>> \o SubSeq(records, pos, Len(records))

RemoveAt(records, pos) ==
    SubSeq(records, 1, pos - 1) \o SubSeq(records, pos + 1, Len(records))

InitLive ==
    /\ wpc = "start"
    /\ l_fetcher = ""
    /\ l_page_size = 0
    /\ live = <<>>
    /\ at_search = <<>>
    /\ l_skip = 0
    /\ l_batch = <<>>
    /\ l_pending = <<>>
    /\ l_yielded = <<>>
    /\ mutations = <<>>

\* lines 60 and 498
LiveSearch(f, ps, n) ==
    /\ wpc = "start"
    /\ wpc' = "request"
    /\ l_fetcher' = f
    /\ l_page_size' = ps
    /\ live' = [i \in 1..n |-> i]
    /\ at_search' = [i \in 1..n |-> i]
    /\ l_skip' = 0
    /\ UNCHANGED <<l_batch, l_pending, l_yielded, mutations>>
    /\ LiveOnly

\* lines 70 and 73-75, 503 and 506-508
LiveAfterBatch(b) ==
    IF b = <<>> \/ IsLastPage(b, l_page_size)
    THEN /\ wpc' = "done"
         /\ UNCHANGED l_skip
    ELSE /\ wpc' = "request"
         /\ l_skip' = NextSkip(l_skip, l_page_size)

\* lines 62-70 and 499-504
LivePageAnswers ==
    /\ wpc = "request"
    /\ LET b == LivePage(Served(live, at_search), l_page_size, l_skip)
       IN  /\ l_batch' = b
           /\ l_pending' = b
           /\ IF b = <<>>
              THEN LiveAfterBatch(b)
              ELSE /\ wpc' = "yield"
                   /\ UNCHANGED l_skip
    /\ UNCHANGED <<l_fetcher, l_page_size, live, at_search, l_yielded, mutations>>
    /\ LiveOnly

\* lines 71-75 and 505-508
LiveYieldItem ==
    /\ wpc = "yield"
    /\ l_yielded' = Append(l_yielded, Head(l_pending))
    /\ l_pending' = Tail(l_pending)
    /\ IF Tail(l_pending) = <<>>
       THEN LiveAfterBatch(l_batch)
       ELSE UNCHANGED <<wpc, l_skip>>
    /\ UNCHANGED <<l_fetcher, l_page_size, live, at_search, l_batch, mutations>>
    /\ LiveOnly

\* between two requests of the loop of lines 61-75 somebody creates an issue
\* that matches the query; it takes position pos of the server's order
ExternalInsert(pos) ==
    /\ wpc = "request"
    /\ l_skip > 0
    /\ Len(mutations) < MaxMutations
    /\ pos \in 1..(Len(live) + 1)
    /\ live' = InsertAt(live, pos, NewRecord(Len(mutations)))
    /\ mutations' = Append(mutations, [op |-> "insert", pos |-> pos,
                                       skip |-> l_skip, before |-> live])
    /\ UNCHANGED <<wpc, l_fetcher, l_page_size, at_search, l_skip, l_batch,
                   l_pending, l_yielded>>
    /\ LiveOnly

\* between two requests of the loop of lines 61-75 somebody deletes the issue
\* at position pos, or edits it so that it matches no more
ExternalRemove(pos) ==
    /\ wpc = "request"
    /\ l_skip > 0
    /\ Len(mutations) < MaxMutations
    /\ pos \in 1..Len(live)
    /\ live' = RemoveAt(live, pos)
    /\ mutations' = Append(mutations, [op |-> "remove", pos |-> pos,
                                       skip |-> l_skip, before |-> live])
    /\ UNCHANGED <<wpc, l_fetcher, l_page_size, at_search, l_skip, l_batch,
                   l_pending, l_yielded>>
    /\ LiveOnly

NextLive ==
    \/ \E f \in Fetchers, ps \in 1..MaxLivePage, n \in 0..MaxLive :
          LiveSearch(f, ps, n)
    \/ LivePageAnswers
    \/ LiveYieldItem
    \/ \E pos \in 1..(MaxLive + MaxMutations + 1) : ExternalInsert(pos)
    \/ \E pos \in 1..(MaxLive + MaxMutations) : ExternalRemove(pos)

(***************************************************************************)
(* Specifications                                                          *)
(***************************************************************************)
Init == InitLinks /\ InitAgg /\ InitMonthly /\ InitExtract /\ InitFetch /\ InitPeriod /\ InitCache /\ InitQuery
        /\ InitLive

SpecLinks == Init /\ [][NextLinks]_vars

SpecAgg == Init /\ [][NextAgg]_vars

SpecMonthly == Init /\ [][NextMonthly]_vars

SpecExtract == Init /\ [][NextExtract]_vars

SpecFetch == Init /\ [][NextFetch]_vars

SpecPeriod == Init /\ [][NextPeriod]_vars

SpecCache == Init /\ [][NextCache]_vars

SpecQuery == Init /\ [][NextQuery]_vars

SpecLive == Init /\ [][NextLive]_vars

(***************************************************************************)
(* Properties of the link resolver                                         *)
(***************************************************************************)
\* every linked list built so far, with the origin of each of its records
LinkedLists ==
    {[linked |-> linked_out, origin |-> origin]}
    \cup {[linked |-> deployments[i].linked, origin |-> dep_log[i].origin] :
             i \in 1..Len(deployments)}

\* the allowed link-type set as the claim reads it: the normalised
\* link_types argument, or the default set
ClaimedAllowedSet ==
    IF link_types.none THEN DEPLOYMENT_LINK_TYPES
    ELSE {Lower(Strip(x)) : x \in link_types.set}

FromAllowedLinks(l) ==
    \A i \in 1..Len(l.linked) : Lower(Strip(l.origin[i].ltype)) \in ClaimedAllowedSet

EveryObservedNameSeen ==
    \A name \in observed : Strip(OrElse(name, <<>>)) \in seen_link_types

\* C1 as stated: in every call, with or without discover_link_types, each
\* linked record comes from a link whose normalised type is in the allowed
\* set, and every link-type name observed is in the seen-link-types set.
C1_FilteredInEveryCall ==
    /\ \A l \in LinkedLists : FromAllowedLinks(l)
    /\ EveryObservedNameSeen

\* C1 amended: in a call without discover_link_types each linked record
\* comes from a link whose normalised type is in the allowed set; with or
\* without it, every link-type name observed is in the seen-link-types set.
C1_FilteredUnlessDiscover ==
    /\ ~discover => \A l \in LinkedLists : FromAllowedLinks(l)
    /\ EveryObservedNameSeen

\* a call without discovery has seen a link type outside the allowed set
\* and has still collected a record
C1_Witness ==
    /\ ~discover
    /\ lpc \in {"inline", "fallback", "iter", "done"}
    /\ \E t \in seen_link_types : Lower(t) \notin ClaimedAllowedSet
    /\ \E l \in LinkedLists : Len(l.linked) > 0

DistinctIds(linked) ==
    \A i, j \in 1..Len(linked) : linked[i].id = linked[j].id => i = j

\* C2: within one deployment's linked list no two records have the same
\* readable identifier, and the dedup set holds exactly the identifiers of
\* the records collected for the deployment.
C2_OneRecordPerIdentifier ==
    /\ \A l \in LinkedLists : DistinctIds(l.linked)
    /\ seen_ids = {linked_out[i].id : i \in 1..Len(linked_out)}

\* an entry has just been skipped because its identifier was already there
C2_Witness ==
    /\ last.kind = "entry"
    /\ last.outcome = "duplicate"
    /\ Len(linked_out) > 0

\* the strict key format as the claim words it
StrictKeyFormat(x) ==
    \E n \in 1..Len(x) :
        /\ n + 1 < Len(x)
        /\ x[1] \in UpperChars
        /\ \A i \in 2..n : x[i] \in UpperChars \cup DigitChars \cup {"_"}
        /\ x[n + 1] = "-"
        /\ \A i \in (n + 2)..Len(x) : x[i] \in DigitChars

\* C3: an entry whose identifier fails the strict format after the backfill
\* attempt (the lookup having failed or not) is dropped without an error,
\* and every identifier in a linked list has the strict format.
C3_MalformedDropped ==
    /\ \A l \in LinkedLists :
          \A i \in 1..Len(l.linked) : StrictKeyFormat(l.linked[i].id)
    /\ (last.kind = "entry" /\ ~last.case.raises
            /\ ~StrictKeyFormat(last.case.final.id))
         => (last.outcome = "invalid" /\ lpc = last.payload)

\* a malformed entry whose lookup failed has just been dropped
C3_Witness ==
    /\ last.kind = "entry"
    /\ last.case.failed
    /\ ~StrictKeyFormat(last.case.final.id)
    /\ last.outcome = "invalid"

\* C4 as stated: once a fallback call or a lookup has failed the call is
\* still not aborted, and the result counts every deployment fetched.
C4_FailureNeverAborts ==
    failures =>
        /\ lpc # "raised"
        /\ lpc \in {"iter", "done"} => Len(deployments) = fetched
        /\ debug.returned => debug.count = fetched

InlineRecords(o) == Cardinality({i \in 1..Len(o) : o[i].payload = "inline"})

\* C5: the links endpoint is called at most once per deployment, only after
\* the inline payload, and only when that payload gave no record and the
\* deployment has an internal id.
C5_FallbackOnlyAfterEmptyInline ==
    /\ links_calls <= 1
    /\ lpc = "inline" => links_calls = 0
    /\ lpc = "fallback" => links_calls = 1
    /\ links_calls = 1 => (InlineRecords(origin) = 0 /\ Truthy(OrElse(dep.id, <<>>)))
    /\ \A i \in 1..Len(dep_log) :
          /\ dep_log[i].links_calls <= 1
          /\ dep_log[i].links_calls = 1 =>
                (InlineRecords(dep_log[i].origin) = 0 /\ Truthy(dep_log[i].dbid))

\* one deployment got its records from the fallback, another from inline
C5_Witness ==
    /\ \E i \in 1..Len(dep_log) :
          dep_log[i].links_calls = 1 /\ Len(dep_log[i].origin) > 0
    /\ \E i \in 1..Len(dep_log) :
          dep_log[i].links_calls = 0 /\ InlineRecords(dep_log[i].origin) > 0

\* the lookup condition and key as the claim words them
ClaimNeedsLookup(li) ==
    \/ ~StrictKeyFormat(Strip(OrElse(li.idReadable, <<>>)))
    \/ ~Truthy(Strip(OrElse(li.project, <<>>)))
    \/ extract_type_from_issue(li) = NoneV
    \/ extract_state_from_issue(li) = NoneV

ClaimLookupKey(li) ==
    IF Truthy(Strip(OrElse(li.id, <<>>)))
    THEN Strip(OrElse(li.id, <<>>))
    ELSE Strip(OrElse(li.idReadable, <<>>))

\* C6 as stated: for every entry that passed the filter the lookup is made
\* exactly when the identifier is malformed or project, type or state is
\* missing, with the internal id if present, and a failed lookup leaves the
\* entry's fields as they were.
C6_LookupIffNeeded ==
    last.kind = "entry" =>
        /\ last.case.lookup <=> ClaimNeedsLookup(last.case.li)
        /\ last.case.lookup => last.case.key = ClaimLookupKey(last.case.li)
        /\ last.case.failed => last.case.final = last.case.before

\* a creation timestamp the claim calls valid, and its date
ValidTimestamp(v) ==
    /\ v.kind = "num"
    /\ v.days > 0 \/ (v.days = 0 /\ v.ms > 0)
    /\ v.days <= MaxDateDays

\* C7 as stated: an invalid creation timestamp gives an empty created_on
\* and never an error out of the call; a valid one gives its UTC date.
C7_InvalidTimestampIsEmpty ==
    /\ lpc # "raised"
    /\ last.kind = "entry" =>
          /\ last.outcome # "aborted"
          /\ ValidTimestamp(last.case.li.created)
                => last.case.before.created = CivilFromDays(last.case.li.created.days)
          /\ ~ValidTimestamp(last.case.li.created)
                => last.case.before.created = NoDate
(***************************************************************************)
(* Properties of the aggregations                                          *)
(***************************************************************************)
\* the type under which the claims count an issue
ClaimType(issue) == OrElse(extract_type_from_issue(issue), Unspecified)

ClaimState(issue) == OrElse(extract_state_from_issue(issue), Unspecified)

\* an issue whose trimmed, lower-cased type is in the exclusion set
ClaimExcluded(issue) == Lower(Strip(ClaimType(issue))) \in EXCLUDED_TYPES

ExcludedSoFar == Cardinality({i \in DOMAIN stream : ClaimExcluded(stream[i])})

NoExcludedBucket ==
    /\ \A p \in DOMAIN per_project : \A t \in DOMAIN per_project[p] :
          Lower(Strip(t)) \notin EXCLUDED_TYPES
    /\ \A t \in DOMAIN overall : Lower(Strip(t)) \notin EXCLUDED_TYPES

\* C8: in both aggregation functions an issue of an excluded type is in no
\* bucket of per_project or overall, is counted in debug.raw, and
\* debug.after_exclude equals debug.raw minus the number of excluded-type
\* issues.
C8_KeptIsRawMinusExcluded ==
    agg_debug.returned =>
        /\ NoExcludedBucket
        /\ agg_debug.raw = Len(stream)
        /\ agg_debug.after_exclude = agg_debug.raw - ExcludedSoFar

\* the leaves of per_project as (project, type, state) paths
LeafPaths ==
    UNION {UNION {{<<p, t, s>> : s \in DOMAIN per_project[p][t]} :
                    t \in DOMAIN per_project[p]} :
             p \in DOMAIN per_project}

IssuesUpperCased(path) ==
    {i \in DOMAIN stream :
        /\ Upper(OrElse(stream[i].project, <<>>)) = path[1]
        /\ ClaimType(stream[i]) = path[2]
        /\ ClaimState(stream[i]) = path[3]
        /\ ~ClaimExcluded(stream[i])}

IssuesTrimmedUpperCased(path) ==
    {i \in DOMAIN stream :
        /\ Upper(Strip(OrElse(stream[i].project, <<>>))) = path[1]
        /\ ClaimType(stream[i]) = path[2]
        /\ ClaimState(stream[i]) = path[3]
        /\ ~ClaimExcluded(stream[i])}

\* C9 as stated: every leaf per_project[project][type][state] of
\* get_task_counts_by_type_and_state is a non-negative integer equal to the
\* number of fetched issues of a type not excluded whose upper-cased project,
\* extracted type and extracted state are exactly that path.
C9_LeafCountsUpperCased ==
    fn = "by_type_and_state" =>
        \A path \in LeafPaths :
            LET leaf == per_project[path[1]][path[2]][path[3]]
            IN  leaf \in Nat /\ leaf = Cardinality(IssuesUpperCased(path))

\* C9 amended: every leaf per_project[project][type][state] of
\* get_task_counts_by_type_and_state is a non-negative integer equal to the
\* number of fetched issues of a type not excluded whose trimmed and
\* upper-cased project, extracted type and extracted state are exactly that
\* path; and every such issue with a non-blank project has its leaf.
C9_LeafCountsTrimmedUpperCased ==
    fn = "by_type_and_state" =>
        /\ \A path \in LeafPaths :
              LET leaf == per_project[path[1]][path[2]][path[3]]
              IN  leaf \in Nat /\ leaf = Cardinality(IssuesTrimmedUpperCased(path))
        /\ \A i \in DOMAIN stream :
              (~ClaimExcluded(stream[i])
                 /\ Strip(OrElse(stream[i].project, <<>>)) # <<>>)
              => <<Upper(Strip(stream[i].project)), ClaimType(stream[i]),
                   ClaimState(stream[i])>> \in LeafPaths

C9_Witness ==
    /\ fn = "by_type_and_state"
    /\ agg_debug.returned
    /\ \E path \in LeafPaths : per_project[path[1]][path[2]][path[3]] = 2
    /\ \E i \in DOMAIN stream : ClaimExcluded(stream[i])

(***************************************************************************)
(* Properties of the monthly aggregation                                   *)
(***************************************************************************)
ClaimedMonthKeys == {MonthKey(m_year, k) : k \in 1..today.month}

KeptInMonth(k) ==
    {i \in DOMAIN month_stream :
        month_stream[i].month = k /\ ~ClaimExcluded(month_stream[i].issue)}

ExactlyTheMonthsSoFar ==
    /\ DOMAIN m_result = ClaimedMonthKeys
    /\ Cardinality(DOMAIN m_result) = today.month
    /\ \A k \in 1..today.month :
          KeptInMonth(k) = {} => m_result[MonthKey(m_year, k)] = EmptyDict

\* C10 as stated: for every project argument and for the current year with
\* current month M, the mapping returned has exactly the M keys year-01 ..
\* year-M, each present, with an empty bucket for a month without kept
\* issues.
C10_ExactlyMKeys ==
    (mpc = "done" /\ m_year = today.year) => ExactlyTheMonthsSoFar

\* C10 amended: for every non-empty project argument and for the current
\* year with current month M, a call that returns gives a mapping with exactly
\* the M keys year-01 .. year-M, each present, with an empty bucket for a
\* month without kept issues; with an empty project argument the mapping
\* returned has no key.
C10_ExactlyMKeysForAProject ==
    (mpc = "done" /\ m_year = today.year) =>
        IF m_project = <<>> THEN m_result = EmptyDict ELSE ExactlyTheMonthsSoFar

C10_Witness ==
    /\ mpc = "done"
    /\ m_year = today.year
    /\ m_project # <<>>
    /\ today.month = 3
    /\ \E k \in 1..today.month : m_result[MonthKey(m_year, k)] = EmptyDict
    /\ \E k \in 1..today.month : m_result[MonthKey(m_year, k)] # EmptyDict
    /\ \E i \in DOMAIN month_stream : ClaimExcluded(month_stream[i].issue)

(***************************************************************************)
(* Properties of the custom-field extractors                               *)
(***************************************************************************)
\* the aliases under which the called extractor looks for its field
ClaimAliases ==
    IF x_fn = "type" THEN {S_type, S_issue_type, S_issuetype} ELSE {S_state}

\* the record has a missing, null or empty custom-field list
ClaimNoList == x_issue.customFields \in {MissingKey, NullList, ListOf(<<>>)}

\* the first field of the list that goes by one of the aliases has no object
\* as its value
ClaimNoObjectValue ==
    /\ ~ClaimNoList
    /\ \E i \in DOMAIN x_issue.customFields.items :
          /\ Lower(Strip(OrElse(x_issue.customFields.items[i].name, <<>>))) \in ClaimAliases
          /\ \A j \in 1..(i - 1) :
                Lower(Strip(OrElse(x_issue.customFields.items[j].name, <<>>)))
                    \notin ClaimAliases
          /\ ~x_issue.customFields.items[i].value.isdict

\* C11: the extractors never raise for an issue record with a missing, null
\* or empty custom-field list or a missing or non-object field value: they
\* return None, which the caller files under "Unspecified".
C11_ExtractorsNeverRaise ==
    (xpc = "done" /\ (ClaimNoList \/ ClaimNoObjectValue)) =>
        /\ x_out = Returned(NoneV)
        /\ x_bucket = Unspecified

(***************************************************************************)
(* Properties of the paged fetchers                                        *)
(***************************************************************************)
\* the records that match, in server order
ServerOrder == [i \in 1..dataset |-> i]

IsPrefix(a, b) == Len(a) <= Len(b) /\ \A i \in DOMAIN a : a[i] = b[i]

\* C12: the pages are requested in offset order 0, page_size, 2*page_size,
\* ...; with an unchanging dataset every matching record is yielded exactly
\* once, in server order, none skipped and none duplicated.
C12_OffsetOrderEachRecordOnce ==
    /\ \A i \in DOMAIN requests :
          /\ requests[i].params.skip = (i - 1) * page_size
          /\ requests[i].params.top = page_size
    /\ IsPrefix(yielded, ServerOrder)
    /\ gpc = "done" => yielded = ServerOrder

C12_Witness ==
    /\ gpc = "done"
    /\ Len(requests) >= 3
    /\ page_size >= 2
    /\ yielded = ServerOrder
    /\ Len(yielded) = MaxDataset

\* C13: with N matching records and page_size >= 1 the fetch stops after the
\* first response that is empty or shorter than page_size, sends no request
\* after it, and has then made exactly N \div page_size + 1 requests, none of
\* which asks for a total count.
C13_StopsAfterShortPage ==
    /\ \A i \in DOMAIN requests :
          /\ i < Len(requests) => requests[i].got = page_size
          /\ DOMAIN requests[i].params = {"query", "fields", "top", "skip"}
    /\ gpc # "start" => Len(requests) <= (dataset \div page_size) + 1
    /\ gpc = "done" =>
          /\ Len(requests) = (dataset \div page_size) + 1
          /\ requests[Len(requests)].got < page_size

C13_Witness ==
    /\ gpc = "done"
    /\ dataset = 2 * page_size
    /\ Len(requests) = 3
    /\ requests[3].got = 0

\* C14: a network, timeout or non-2xx failure of any page of a top-level
\* search is not recovered: the function that runs the search raises, and the
\* exception carries the failing query and, when there was a response, its
\* status.
C14_SearchFailurePropagates ==
    \A i \in DOMAIN requests :
        requests[i].failed =>
            /\ call_outcome.kind = "raised"
            /\ call_outcome.error.query = requests[i].params.query
            /\ call_outcome.error.query = QueryOf(caller)
            /\ call_outcome.error.type = "HTTPError"
                  => call_outcome.error.status = <<"5","0","0">>
            /\ i = Len(requests)

C14_Witness ==
    /\ gpc = "raised"
    /\ Len(requests) = 2
    /\ Len(yielded) > 0
    /\ caller.fn = "get_deployments_on_live"
    /\ call_outcome.error.type = "HTTPError"

\* the functions the spec calls aggregations
ClaimAggregations ==
    {"get_monthly_task_counts_by_type", "get_task_counts_by_type_and_state",
     "get_task_counts_by_type"}

\* C15: when a request of an aggregation fails after its first fetch has
\* succeeded (a later page of the query), the aggregation call returns (an
\* empty result with the query attached) instead of raising; when the first
\* fetch fails, the call ends in a way that differs from the result of a
\* search that found no issues.
C15_LaterFailureReturnsEmpty ==
    \A i \in DOMAIN requests :
        (requests[i].failed /\ caller.fn \in ClaimAggregations) =>
            IF i > 1 THEN call_outcome.kind = "returned"
            ELSE call_outcome # Returns

(***************************************************************************)
(* Properties of the period resolver                                       *)
(***************************************************************************)
ClaimKeys == {"current_month", "previous_month", "last_6_months", "last_1_year"}

ClaimLeapYear(y) == (y % 4 = 0 /\ y % 100 # 0) \/ y % 400 = 0

\* the true number of days of a calendar month
ClaimDaysInMonth(y, mo) ==
    IF mo = 2 THEN (IF ClaimLeapYear(y) THEN 29 ELSE 28)
    ELSE IF mo \in {4, 6, 9, 11} THEN 30 ELSE 31

\* a month as the number of months since year 0
MonthIndex(y, mo) == 12 * y + (mo - 1)

\* the first day of the month with a given index
FirstOfIndex(i) == Date(i \div 12, (i % 12) + 1, 1)

\* the last day of the month with a given index
LastOfIndex(i) == Date(i \div 12, (i % 12) + 1, ClaimDaysInMonth(i \div 12, (i % 12) + 1))

NotAfter(a, b) ==
    \/ a.year < b.year
    \/ a.year = b.year /\ a.month < b.month
    \/ a.year = b.year /\ a.month = b.month /\ a.day <= b.day

RangeReturned(key) ==
    rpc = "done" /\ r_fn = "get_period_range" /\ r_key = key

\* C16: for every recognized period key and every reference date
\* get_period_range returns (start, end) with start <= end, start on day 1 of
\* a month and end on the true last calendar day of its month.
C16_RangeWellFormed ==
    (rpc = "done" /\ r_fn = "get_period_range" /\ r_key \in ClaimKeys) =>
        /\ r_out.kind = "returned"
        /\ NotAfter(r_out.range[1], r_out.range[2])
        /\ r_out.range[1].day = 1
        /\ r_out.range[1].month \in 1..12
        /\ r_out.range[2].month \in 1..12
        /\ r_out.range[2].day =
              ClaimDaysInMonth(r_out.range[2].year, r_out.range[2].month)

C16_Witness ==
    /\ RangeReturned("current_month")
    /\ r_today = Date(2024, 2, 15)
    /\ r_out.range = <<Date(2024, 2, 1), Date(2024, 2, 29)>>

\* C17: for every reference date get_period_range('last_6_months', today)
\* spans exactly 6 calendar months ending at today's month: it starts on the
\* first day of the month 5 months before today's month, in the previous year
\* when today's month is January..May, and ends on the last day of today's
\* month.
C17_LastSixMonths ==
    RangeReturned("last_6_months") =>
        LET this == MonthIndex(r_today.year, r_today.month)
            start == r_out.range[1]
            end == r_out.range[2]
        IN  /\ r_out.kind = "returned"
            /\ start = FirstOfIndex(this - 5)
            /\ end = LastOfIndex(this)
            /\ MonthIndex(end.year, end.month) - MonthIndex(start.year, start.month) + 1 = 6
            /\ (start.year = r_today.year - 1) <=> (r_today.month \in 1..5)
            /\ (start.year = r_today.year) <=> (r_today.month \in 6..12)

C17_Witness ==
    /\ RangeReturned("last_6_months")
    /\ r_today = Date(2025, 3, 15)
    /\ r_out.range = <<Date(2024, 10, 1), Date(2025, 3, 31)>>

\* C18: for every reference date get_period_range('previous_month', today)
\* returns the first and the last day of the calendar month right before
\* today's month, which is December of the previous year when today is in
\* January.
C18_PreviousMonth ==
    RangeReturned("previous_month") =>
        LET before == MonthIndex(r_today.year, r_today.month) - 1
        IN  /\ r_out.kind = "returned"
            /\ r_out.range = <<FirstOfIndex(before), LastOfIndex(before)>>
            /\ r_today.month = 1 =>
                  r_out.range = <<Date(r_today.year - 1, 12, 1),
                                  Date(r_today.year - 1, 12, 31)>>

C18_Witness ==
    /\ RangeReturned("previous_month")
    /\ r_today = Date(2025, 1, 31)
    /\ r_out.range = <<Date(2024, 12, 1), Date(2024, 12, 31)>>

\* the keys for which the resolver returns a range
AcceptedKeys ==
    {k \in PeriodKeyArgs :
        \A td \in ClockDays : get_period_range(k, td).kind = "returned"}

\* C19: get_period_range with a key that is not one of the four recognized
\* keys returns no range and fails with an error that names the offending key
\* and enumerates the valid keys, which are exactly the keys the resolver
\* accepts.
C19_UnknownKeyFails ==
    (rpc = "done" /\ r_fn = "get_period_range" /\ r_key \notin ClaimKeys) =>
        /\ r_out.kind = "raised"
        /\ r_out.range = NoRange
        /\ r_out.error.key = r_key
        /\ {r_out.error.expected[i] : i \in DOMAIN r_out.error.expected} = AcceptedKeys
        /\ AcceptedKeys = ClaimKeys

C19_Witness ==
    /\ rpc = "done"
    /\ r_fn = "get_period_range"
    /\ r_key = "Current_Month"
    /\ r_out.kind = "raised"

\* the texts between each "{" and the "}" that follows it
RECURSIVE Bracketed(_)
Bracketed(s) ==
    LET opens == {i \in DOMAIN s : s[i] = "{"}
    IN  IF opens = {} THEN <<>>
        ELSE LET o == CHOOSE i \in opens : \A j \in opens : i <= j
                 closes == {i \in DOMAIN s : i > o /\ s[i] = "}"}
             IN  IF closes = {} THEN <<>>
                 ELSE LET c == CHOOSE i \in closes : \A j \in closes : i <= j
                      IN  <<SubSeq(s, o + 1, c - 1)>> \o Bracketed(SubSeq(s, c + 1, Len(s)))

DigitOf(c) == CHOOSE n \in 0..9 : DigitSeq[n + 1] = c

RECURSIVE NumberOf(_)
NumberOf(s) ==
    IF s = <<>> THEN 0 ELSE 10 * NumberOf(SubSeq(s, 1, Len(s) - 1)) + DigitOf(s[Len(s)])

IsDigits(s) == \A i \in DOMAIN s : s[i] \in DigitChars

\* date.fromisoformat of YYYY-MM-DD; anything else is no date
ParseIso(s) ==
    IF /\ Len(s) = 10
       /\ s[5] = "-"
       /\ s[8] = "-"
       /\ IsDigits(SubSeq(s, 1, 4) \o SubSeq(s, 6, 7) \o SubSeq(s, 9, 10))
    THEN Date(NumberOf(SubSeq(s, 1, 4)), NumberOf(SubSeq(s, 6, 7)),
              NumberOf(SubSeq(s, 9, 10)))
    ELSE NoDay

ParsedRange(fragment) ==
    LET b == Bracketed(fragment)
    IN  IF Len(b) = 2 THEN <<ParseIso(b[1]), ParseIso(b[2])>> ELSE <<>>

\* C20: for every period key and date field name, the two bracketed ISO
\* dates parsed out of the fragment of get_field_period_filter are exactly
\* the (start, end) pair get_period_range returns for the same key on the
\* same reference day.
C20_FragmentRoundTrip ==
    (rpc = "done" /\ r_fn = "get_field_period_filter" /\ r_key \in ClaimKeys) =>
        /\ r_out.kind = "returned"
        /\ ParsedRange(r_out.fragment) = get_period_range(r_key, r_today).range
        /\ SubSeq(r_out.fragment, 1, Len(r_field)) = r_field

C20_Witness ==
    /\ rpc = "done"
    /\ r_fn = "get_field_period_filter"
    /\ r_key = "previous_month"
    /\ r_field = F_due_date
    /\ r_today = Date(2025, 1, 10)
    /\ ParsedRange(r_out.fragment) = <<Date(2024, 12, 1), Date(2024, 12, 31)>>

(***************************************************************************)
(* Properties of ttl_cache                                                 *)
(***************************************************************************)
\* C21: for a wrapped function and a fixed argument tuple, a call made less
\* than ttl seconds after the last successful computation (counted from the
\* time that computation was made at) returns the stored value without
\* invoking the wrapped function; a call made ttl seconds or more after it
\* invokes the wrapped function exactly once and, when that succeeds, stores
\* the fresh value with the new timestamp; after cache_clear the next call
\* recomputes.
C21_TtlCache ==
    k_last.kind = "call" =>
        LET age == k_last.at - k_last.before.ts
        IN  /\ (k_last.before.present /\ age < ttl_seconds) =>
                  /\ k_last.invoked = 0
                  /\ k_last.value = k_last.before.value
                  /\ cache[k_last.key] = k_last.before
            /\ (k_last.before.present /\ age >= ttl_seconds) =>
                  /\ k_last.invoked = 1
                  /\ ~k_last.raised =>
                        cache[k_last.key] = Entry(k_last.at, k_last.value)
            /\ k_last.after_clear => k_last.invoked = 1

C21_Witness ==
    /\ k_last.kind = "call"
    /\ k_last.before.present
    /\ k_last.at - k_last.before.ts = ttl_seconds
    /\ k_last.invoked = 1
    /\ k_last.value # k_last.before.value
    /\ cache[k_last.key] = Entry(k_last.at, k_last.value)
    /\ \E k \in CacheKeys : k # k_last.key /\ cache[k].present

(***************************************************************************)
(* Properties of the query of the aggregations                             *)
(***************************************************************************)
\* the pieces of a text between single spaces
RECURSIVE SplitOnSpace(_)
SplitOnSpace(s) ==
    LET spaces == {i \in DOMAIN s : s[i] = " "}
    IN  IF spaces = {} THEN <<s>>
        ELSE LET i == CHOOSE k \in spaces : \A j \in spaces : k <= j
             IN  <<SubSeq(s, 1, i - 1)>> \o SplitOnSpace(SubSeq(s, i + 1, Len(s)))

\* the non-empty project codes the query is built for, in the order given
ClaimCodes ==
    LET codes == IF q_fn = "_build_projects_or_clause" THEN q_projects
                 ELSE [i \in DOMAIN q_projects |-> Upper(Strip(q_projects[i]))]
        NotEmpty(p) == p # <<>>
    IN  SelectSeq(codes, NotEmpty)

ClaimPredicate(code) == <<"p","r","o","j","e","c","t",":","{">> \o code \o <<"}">>

IsProjectPredicate(token) ==
    Len(token) >= 8 /\ SubSeq(token, 1, 8) = <<"p","r","o","j","e","c","t",":">>

\* the first n pieces are the predicates of the codes, in order, and no
\* other piece is a project predicate
PredicatesFirst(tokens) ==
    /\ Len(tokens) >= Len(ClaimCodes)
    /\ \A i \in DOMAIN ClaimCodes : tokens[i] = ClaimPredicate(ClaimCodes[i])
    /\ \A i \in DOMAIN tokens : IsProjectPredicate(tokens[i]) => i <= Len(ClaimCodes)
    /\ \A i \in DOMAIN tokens : tokens[i] # ClaimPredicate(<<>>)

\* C22: for a non-empty list of project codes the aggregation query is one
\* project predicate per code of the list, each once and in the order given,
\* followed by the created-date period fragment and 'has: -{subtask of}',
\* all separated by single spaces; an empty code gets no predicate.
C22_QueryShape ==
    /\ (qpc = "done" /\ q_fn = "_build_projects_or_clause") =>
          IF ClaimCodes = <<>> THEN q_out.text = <<>>
          ELSE /\ PredicatesFirst(SplitOnSpace(q_out.text))
               /\ Len(SplitOnSpace(q_out.text)) = Len(ClaimCodes)
    /\ (qpc = "done" /\ q_fn \in AggFunctions /\ ClaimCodes # <<>>) =>
          LET tokens == SplitOnSpace(q_out.text)
              n == Len(ClaimCodes)
          IN  /\ q_out.kind = "query"
              /\ PredicatesFirst(tokens)
              /\ Len(tokens) = n + 7
              /\ JoinWithSpace(SubSeq(tokens, n + 1, n + 4))
                    = F_created \o <<":", " ", "{">>
                        \o IsoFormat(get_period_range(q_key, q_today).range[1])
                        \o <<"}", " ", ".", ".", " ", "{">>
                        \o IsoFormat(get_period_range(q_key, q_today).range[2])
                        \o <<"}">>
              /\ JoinWithSpace(SubSeq(tokens, n + 5, n + 7))
                    = <<"h","a","s",":"," ","-","{","s","u","b","t","a","s","k"," ","o","f","}">>

C22_Witness ==
    /\ qpc = "done"
    /\ q_fn = "by_type_and_state"
    /\ q_projects = << <<>>, P_at_padded >>
    /\ q_key = "previous_month"
    /\ q_today = Date(2025, 1, 10)
    /\ SplitOnSpace(q_out.text)[1] = ClaimPredicate(P_AT)
    /\ Len(SplitOnSpace(q_out.text)) = 8

(***************************************************************************)
(* Properties of a paged fetch over a changing dataset                     *)
(***************************************************************************)
TimesYielded(r) == Cardinality({i \in DOMAIN l_yielded : l_yielded[i] = r})

\* the records that matched from the first request to the last
MatchedThroughout ==
    {at_search[i] : i \in DOMAIN at_search}
        \cap {live[i] : i \in DOMAIN live}

\* the edit was before the offset the fetch had reached
BeforeOffset(mu) == mu.pos <= mu.skip

Skipped == {r \in MatchedThroughout : TimesYielded(r) = 0}

YieldedTwice == {r \in MatchedThroughout : TimesYielded(r) = 2}

\* C23: no snapshot is taken.  A fetch disturbed by no edit before its
\* offset yields every record that matched throughout exactly once; one
\* removal before the offset makes the fetch skip the record that stood at
\* the offset, one insertion before the offset makes it yield the last
\* record of the previous page a second time.
C23_MutationSkipsOrRepeats ==
    wpc = "done" =>
       /\ (\A k \in DOMAIN mutations : ~BeforeOffset(mutations[k])) =>
             \A r \in MatchedThroughout : TimesYielded(r) = 1
       /\ (Len(mutations) = 1 /\ BeforeOffset(mutations[1])) =>
             LET mu == mutations[1]
             IN  /\ (mu.op = "remove" /\ mu.skip < Len(mu.before)) =>
                       /\ mu.before[mu.skip + 1] \in Skipped
                       /\ YieldedTwice = {}
                 /\ mu.op = "insert" =>
                       /\ mu.before[mu.skip] \in YieldedTwice
                       /\ Skipped = {}

\* one fetch in which a record is skipped and another is yielded twice
C23_Witness ==
    /\ wpc = "done"
    /\ \A k \in DOMAIN mutations : BeforeOffset(mutations[k])
    /\ Skipped # {}
    /\ YieldedTwice # {}

(***************************************************************************)
(* Properties of the totals of the aggregations                            *)
(***************************************************************************)
\* the sum of the counts of a dict of counts
RECURSIVE SumOfCounts(_)
SumOfCounts(d) ==
    IF DOMAIN d = {} THEN 0
    ELSE LET k == CHOOSE x \in DOMAIN d : TRUE
         IN  d[k] + SumOfCounts([x \in (DOMAIN d) \ {k} |-> d[x]])

\* the sum of the counts of a dict of dicts of counts
RECURSIVE SumOfNested(_)
SumOfNested(d) ==
    IF DOMAIN d = {} THEN 0
    ELSE LET k == CHOOSE x \in DOMAIN d : TRUE
         IN  SumOfCounts(d[k]) + SumOfNested([x \in (DOMAIN d) \ {k} |-> d[x]])

\* all counts of the returned overall structure
OverallTotal ==
    IF fn = "by_type_and_state" THEN SumOfNested(overall) ELSE SumOfCounts(overall)

\* C24: in both aggregation functions, for any stream of issues (issues of a
\* missing or blank project included), debug.after_exclude equals the sum of
\* all counts of the returned overall, and debug.raw >= debug.after_exclude.
C24_KeptIsOverallTotal ==
    agg_debug.returned =>
        /\ agg_debug.after_exclude = OverallTotal
        /\ agg_debug.raw >= agg_debug.after_exclude

\* the count per_project[project][type][state], 0 where there is none
CountAt(p, t, st) ==
    Get(Get(Get(per_project, p, EmptyDict), t, EmptyDict), st, 0)

TypesCounted ==
    (DOMAIN overall) \cup UNION {DOMAIN per_project[p] : p \in DOMAIN per_project}

StatesCounted ==
    UNION {DOMAIN overall[t] : t \in DOMAIN overall}
       \cup UNION {UNION {DOMAIN per_project[p][t] : t \in DOMAIN per_project[p]} :
                     p \in DOMAIN per_project}

\* C25: in the result of get_task_counts_by_type_and_state, for every type
\* and state overall[type][state] is the sum over all projects of
\* per_project[project][type][state], and per_project has an entry, possibly
\* empty, for every configured active project.
C25_OverallIsSumOfProjects ==
    (fn = "by_type_and_state" /\ agg_debug.returned) =>
        /\ \A t \in TypesCounted : \A st \in StatesCounted :
              Get(Get(overall, t, EmptyDict), st, 0)
                 = SumOfCounts([p \in DOMAIN per_project |-> CountAt(p, t, st)])
        /\ \A i \in DOMAIN CONFIG_ACTIVE_PROJECTS :
              CONFIG_ACTIVE_PROJECTS[i] \in DOMAIN per_project

\* two projects share a type and a state, a third configured project has
\* no issue
C25_Witness ==
    /\ fn = "by_type_and_state"
    /\ agg_debug.returned
    /\ \E t \in DOMAIN overall : \E st \in DOMAIN overall[t] :
          /\ overall[t][st] = 2
          /\ \E p1, p2 \in DOMAIN per_project :
                p1 # p2 /\ CountAt(p1, t, st) = 1 /\ CountAt(p2, t, st) = 1
    /\ \E p \in DOMAIN per_project : per_project[p] = EmptyDict

(***************************************************************************)
(* Properties of the two payloads of a deployment                          *)
(***************************************************************************)
\* this step calls the links endpoint: it answers, or it fails and the
\* deployment is appended at once
FallbackInvoked ==
    \/ links_calls' = links_calls + 1
    \/ /\ Len(dep_log') = Len(dep_log) + 1
       /\ dep_log'[Len(dep_log')].links_calls = links_calls + 1

\* all records come from one payload
FromOnePayload(o) == \A i, j \in 1..Len(o) : o[i].payload = o[j].payload

\* C26: whenever the links endpoint is called for a deployment, its linked
\* list and its dedup set are both empty; so the linked list of a deployment
\* is built from the inline payload alone or from the fallback payload alone.
C26_NeverAMix ==
    /\ [][FallbackInvoked => (linked_out = <<>> /\ seen_ids = {})]_vars
    /\ [](/\ FromOnePayload(origin)
          /\ Len(origin) = Len(linked_out)
          /\ \A i \in 1..Len(dep_log) :
                /\ FromOnePayload(dep_log[i].origin)
                /\ Len(dep_log[i].origin) = Len(deployments[i].linked))

\* a deployment built from its inline payload is followed by one whose
\* fallback payload has given a record
C26_Witness ==
    /\ lpc = "fallback"
    /\ linked_out # <<>>
    /\ seen_ids # {}
    /\ \A i \in 1..Len(origin) : origin[i].payload = "fallback"
    /\ \E i \in 1..Len(dep_log) :
          /\ dep_log[i].links_calls = 0
          /\ deployments[i].linked # <<>>
          /\ \A j \in 1..Len(dep_log[i].origin) : dep_log[i].origin[j].payload = "inline"

=============================================================================
